---- MODULE Spec2Model ----
(***************************************************************************)
(* Plugin host of the emulator: Tools::PluginManager and its per-plugin    *)
(* worker threads (src/src/core/tools/plugin_manager.cpp, .h).             *)
(*                                                                         *)
(* Threads: the UI thread (SetActive, LoadPlugin, RemovePlugin), the       *)
(* emulator's vsync thread (ProcessScriptFromVsync), the pacing thread     *)
(* (ProcessScriptFromMainLoop in a loop) and one worker per plugin record  *)
(* (PluginThreadExecuter).  Every statement that touches shared state      *)
(* without holding the mutex that guards it is a step of its own.          *)
(***************************************************************************)
EXTENDS Integers, Sequences, FiniteSets, TLC

\* ------------------------------------------------------------------ bounds
MaxRecords == 2
MaxUiCalls == 4
MaxOnePluginUiCalls == 6
MaxDialogUiCalls == 4
MaxOverlayUiCalls == 3
MaxPixels == 1
MaxRenderCalls == 2
MaxAddress == 1
MaxFrameAdvance == 2

\* ------------------------------------------------------- program constants
PLUGIN_INTERFACE_VERSION == 0

\* enum class KeyboardModifiers: LeftControl = 0 .. NumLock = 10.
NumKeyboardMods == 11

\* The plugin files the UI offers.
Paths == {"plugin_a.so", "plugin_b.so"}
NoPath == "none"
OnePluginPath == "plugin_a.so"
RecIds == 1..MaxRecords
Drivers == {"vsync", "pacing"}
NoOwner == "none"
NoError == <<>>

\* Guest memory: addresses 0..MaxAddress, of which all but the last are mapped
\* while a process exists.
Addresses == 0..MaxAddress
Bytes == {0, 1}
ZeroMemory == [a \in Addresses |-> 0]
NoCall == [fn |-> "none", first |-> 0, last |-> 0, ret |-> 0]

\* The overlay canvas: a few pixels, each transparent or painted.
Pixels == 1..MaxPixels
ClearPixels == [x \in Pixels |-> "transparent"]
\* guiPixmap and guiPainter before the first RegenerateGuiRendererIfNeeded: the
\* members have no initializer.
NoPixmap == [size |-> "none", px |-> ClearPixels]
NoPainter == [pen |-> "none"]
\* The colours a plugin passes to gui_drawpixel (alpha 0 or not), and the files
\* it passes to gui_drawimage (QImage(path) is a null image when it fails to load).
PenColors == {"transparent", "red"}
ImageFiles == {"image", "null"}

\* What this build's std::mutex does when the owning thread locks it again
\* (undefined behaviour): block forever, throw std::system_error, or count the
\* lock recursively.
RelockOutcomes == {"deadlock", "throw", "recursive"}

\* The shared libraries LoadPlugin may find at a path.
LibKinds == {"noopen", "noversion", "badversion", "nostart", "nomainloop", "noclose", "full"}
LibOpens(l) == l # "noopen"
LibHasVersion(l) == l \notin {"noopen", "noversion"}
LibVersion(l) == IF l = "badversion" THEN PLUGIN_INTERFACE_VERSION + 1 ELSE PLUGIN_INTERFACE_VERSION
LibHasStart(l) == l \notin {"noopen", "nostart"}
LibHasMainLoop(l) == l \notin {"noopen", "nomainloop"}
LibHasOnClose(l) == l \notin {"noopen", "noclose"}
OnePluginLibKinds == {"nostart", "noclose", "full"}

VARIABLES
    relock,                 \* the build's behaviour on relocking a held std::mutex
    aborted,                \* the process has terminated (uncaught exception, null call)
    active,                 \* PluginManager::active
    pacingThread,           \* plugin_main_loop_thread exists
    pacingThreadsCreated,   \* threads SetActive has created so far
    run_main_loop_thread,   \* the pacing thread's run flag
    dtor,                   \* position of ~PluginManager: none, join, done
    plugins,                \* PluginManager::plugins, a sequence of record ids
    loaded_plugins,         \* the key-set
    temp_plugins_to_remove, \* the pending-removal list
    last_error,             \* the pieces the error string is concatenated from
    looseHandles,           \* libraries opened by a LoadPlugin that pushed no record, still open
    plugins_mutex,          \* owner of plugins_mutex
    numRecs,                \* records created so far by make_shared<Plugin>
    path,                   \* Plugin::path
    hasOnClose,             \* the record's library exports on_close
    ready,                  \* Plugin::ready
    processedMainLoop,      \* Plugin::processedMainLoop
    encounteredVsync,       \* Plugin::encounteredVsync
    hasStopped,             \* Plugin::hasStopped
    pluginThread,           \* Plugin::pluginThread != nullptr
    workersCreated,         \* worker threads ProcessScript has created, per record
    pluginMutex,            \* owner of Plugin::pluginMutex
    waiters,                \* threads blocked in Plugin::pluginCv
    libOpen,                \* the record's library handle is open
    wpc,                    \* position of the record's worker
    faCalls,                \* frame-advance calls returned in the current pass
    dpc,                    \* position of each driver thread
    di,                     \* index of the driver's for loop over plugins
    closeIdx,               \* index of HandlePluginClosings' for loop
    uiCalls,                \* UI calls made so far
    uiBlocked,              \* the UI thread is blocked inside a call
    uiIterating,            \* the UI thread is in the loop over the set GetAllLoadedPlugins returned
    startCalls,             \* calls of the plugin's start, per record
    onCloseCalls,           \* the threads that called on_close, per record
    callbackCalls,          \* calls of plugin_list_update_callback
    enteredSinceTick,       \* the record entered its main loop, no entry point has started its loop since
    poweredOn,              \* system.IsPoweredOn(): the guest is running
    use_docked_mode,        \* Settings::values.use_docked_mode
    lastDockedState,        \* the dock state the overlay canvas was made for
    guiPixmap,              \* the overlay canvas: its size and its pixels
    guiPainter,             \* the painter on the canvas: its pen
    render_callback,        \* the frontend has installed a render callback
    renderCalls,            \* calls of the render callback so far
    lastRefused,            \* the last overlay call that found the guest off, since it was last on
    processStatus,          \* system.CurrentProcess(): none, or its status (created, running)
    hidAppletResource,      \* the record's HID facade handle is bound
    guestMemory,            \* the bytes of the guest's mapped memory
    lastCall,               \* the last host-API call of a plugin and what it returned
    modifier                \* KeyboardState::modifier of the HID keyboard (s32)

vars == <<relock, aborted, active, pacingThread, pacingThreadsCreated, plugins, loaded_plugins,
          temp_plugins_to_remove, last_error, looseHandles, plugins_mutex, numRecs, path,
          hasOnClose,
          ready, processedMainLoop, encounteredVsync, hasStopped, pluginThread, workersCreated,
          pluginMutex, waiters, libOpen, wpc, faCalls, dpc, di, closeIdx, uiCalls,
          uiBlocked, uiIterating, startCalls, onCloseCalls, callbackCalls, enteredSinceTick,
          poweredOn, use_docked_mode, lastDockedState, guiPixmap, guiPainter,
          render_callback, renderCalls, lastRefused, processStatus, hidAppletResource,
          guestMemory, lastCall, run_main_loop_thread, dtor, modifier>>

managerVars == <<active, pacingThread, pacingThreadsCreated, plugins, loaded_plugins, temp_plugins_to_remove,
                 last_error, looseHandles, plugins_mutex, numRecs>>
recordVars == <<path, hasOnClose, ready, processedMainLoop, encounteredVsync, hasStopped,
                pluginThread, workersCreated, pluginMutex, waiters, libOpen>>
uiVars == <<uiCalls, uiBlocked, uiIterating>>
guestVars == <<processStatus, hidAppletResource, guestMemory, lastCall>>
overlayVars ==
    <<poweredOn, use_docked_mode, lastDockedState, guiPixmap, guiPainter, render_callback,
      renderCalls, lastRefused>>
historyVars == <<startCalls, onCloseCalls, callbackCalls, enteredSinceTick>>
destructorVars == <<run_main_loop_thread, dtor>>

Init ==
    /\ relock \in RelockOutcomes
    /\ aborted = FALSE
    /\ active = FALSE
    /\ pacingThread = FALSE
    /\ pacingThreadsCreated = 0
    /\ run_main_loop_thread = TRUE
    /\ dtor = "none"
    /\ plugins = <<>>
    /\ loaded_plugins = {}
    /\ temp_plugins_to_remove = <<>>
    /\ last_error = NoError
    /\ looseHandles = 0
    /\ plugins_mutex = NoOwner
    /\ numRecs = 0
    /\ path = [r \in RecIds |-> NoPath]
    /\ hasOnClose = [r \in RecIds |-> FALSE]
    /\ ready = [r \in RecIds |-> FALSE]
    /\ processedMainLoop = [r \in RecIds |-> TRUE]
    /\ encounteredVsync = [r \in RecIds |-> FALSE]
    /\ hasStopped = [r \in RecIds |-> FALSE]
    /\ pluginThread = [r \in RecIds |-> FALSE]
    /\ workersCreated = [r \in RecIds |-> 0]
    /\ pluginMutex = [r \in RecIds |-> NoOwner]
    /\ waiters = [r \in RecIds |-> {}]
    /\ libOpen = [r \in RecIds |-> FALSE]
    /\ wpc = [r \in RecIds |-> "nothread"]
    /\ faCalls = [r \in RecIds |-> 0]
    /\ dpc = [d \in Drivers |-> IF d = "vsync" THEN "idle" ELSE "nothread"]
    /\ di = [d \in Drivers |-> 0]
    /\ closeIdx = 0
    /\ uiCalls = 0
    /\ uiBlocked = FALSE
    /\ uiIterating = FALSE
    /\ poweredOn = FALSE
    /\ use_docked_mode = FALSE
    /\ lastDockedState = "Neither"
    /\ guiPixmap = NoPixmap
    /\ guiPainter = NoPainter
    /\ render_callback = FALSE
    /\ renderCalls = 0
    /\ lastRefused = "none"
    /\ processStatus = "none"
    /\ hidAppletResource = [r \in RecIds |-> FALSE]
    /\ guestMemory = ZeroMemory
    /\ lastCall = NoCall
    /\ modifier = 0
    /\ startCalls = [r \in RecIds |-> 0]
    /\ onCloseCalls = [r \in RecIds |-> <<>>]
    /\ callbackCalls = 0
    /\ enteredSinceTick = [r \in RecIds |-> FALSE]

\* ---------------------------------------------------------------- UI thread
\* The frontend calls into the manager only while the manager is alive.
UiCanCall == ~aborted /\ ~uiBlocked /\ ~uiIterating /\ dtor = "none"

\* last_error of each failure, as the pieces the code concatenates.
DllErrorText == <<"DLL error ", "dlerror">>
VersionErrorText(l) ==
    <<"Plugin version ", LibVersion(l), " is not compatible with Yuzu plugin version ",
      PLUGIN_INTERFACE_VERSION>>
EntryPointErrorText ==
    <<"The plugin needs the functions 'start' and 'on_main_loop' exported in order to run">>

\* Faulty variant of CreatesPacingThread: plugin_main_loop_thread is not tested.
CreatesPacingThread_NoNullCheck(prev) == prev

\* SetActive creates the pacing thread when the exchange returned true (prev, the
\* flag before the call) and plugin_main_loop_thread is still null.
CreatesPacingThread(prev) == prev /\ ~pacingThread

\* if (active.exchange(active_)): the pacing thread is created when the flag was
\* already set before the call.
SetActive(b) ==
    /\ UiCanCall
    /\ active' = b
    /\ IF CreatesPacingThread(active)
          THEN /\ pacingThread' = TRUE
               /\ pacingThreadsCreated' = pacingThreadsCreated + 1
               /\ dpc' = [dpc EXCEPT !["pacing"] = "idle"]
          ELSE UNCHANGED <<pacingThread, pacingThreadsCreated, dpc>>
    /\ uiCalls' = uiCalls + 1
    /\ UNCHANGED <<guestVars, overlayVars, relock, modifier, destructorVars, aborted, plugins, loaded_plugins, temp_plugins_to_remove,
                   last_error, looseHandles, plugins_mutex, numRecs, recordVars, wpc, faCalls,
                   di,
                   closeIdx, uiBlocked, uiIterating, historyVars>>

\* Faulty variant of LoadDedup: the key-set is not consulted.
LoadDedup_Never(p, l) == FALSE

\* The four ways LoadPlugin leaves without creating a record.
LoadDedup(p, l) == p \in loaded_plugins
LoadOpenFails(p, l) == ~LoadDedup(p, l) /\ ~LibOpens(l)
LoadNullVersionCall(p, l) == ~LoadDedup(p, l) /\ LibOpens(l) /\ ~LibHasVersion(l)
LoadVersionMismatch(p, l) ==
    /\ ~LoadDedup(p, l) /\ LibOpens(l) /\ LibHasVersion(l)
    /\ LibVersion(l) # PLUGIN_INTERFACE_VERSION
LoadMissingEntry(p, l) ==
    /\ ~LoadDedup(p, l) /\ LibOpens(l) /\ LibHasVersion(l)
    /\ LibVersion(l) = PLUGIN_INTERFACE_VERSION
    /\ (~LibHasStart(l) \/ ~LibHasMainLoop(l))

\* Faulty variant of LoadSucceeds: the exported entry points are not checked.
LoadSucceeds_NoEntryCheck(p, l) ==
    /\ ~LoadDedup(p, l) /\ LibOpens(l) /\ LibHasVersion(l)
    /\ LibVersion(l) = PLUGIN_INTERFACE_VERSION

\* LoadPlugin pushes a record.
LoadSucceeds(p, l) ==
    /\ ~LoadDedup(p, l) /\ LibOpens(l) /\ LibHasVersion(l)
    /\ LibVersion(l) = PLUGIN_INTERFACE_VERSION
    /\ LibHasStart(l) /\ LibHasMainLoop(l)

\* The error LoadPlugin records when it returns false.
LoadError(p, l) ==
    IF LoadOpenFails(p, l) THEN DllErrorText
    ELSE IF LoadVersionMismatch(p, l) THEN VersionErrorText(l)
    ELSE EntryPointErrorText

\* What LoadPlugin returns (when it returns): true for a path already in the
\* key-set and after a successful load, false after each recorded error.
LoadReturns(p, l) == LoadDedup(p, l) \/ LoadSucceeds(p, l)

\* Faulty variant of PushRecord: the path is inserted into the key-set and start is
\* called, but the record is not appended to the plugins list.
PushRecord_KeyOnly(p, l) ==
    LET r == numRecs + 1 IN
    /\ numRecs' = r
    /\ path' = [path EXCEPT ![r] = p]
    /\ hasOnClose' = [hasOnClose EXCEPT ![r] = LibHasOnClose(l)]
    /\ libOpen' = [libOpen EXCEPT ![r] = TRUE]
    /\ loaded_plugins' = loaded_plugins \cup {p}
    /\ startCalls' = [startCalls EXCEPT ![r] = @ + 1]
    /\ UNCHANGED plugins

\* Faulty variant of PushRecord: setup() is called before and after the push.
PushRecord_StartTwice(p, l) ==
    LET r == numRecs + 1 IN
    /\ numRecs' = r
    /\ path' = [path EXCEPT ![r] = p]
    /\ hasOnClose' = [hasOnClose EXCEPT ![r] = LibHasOnClose(l)]
    /\ libOpen' = [libOpen EXCEPT ![r] = TRUE]
    /\ loaded_plugins' = loaded_plugins \cup {p}
    /\ startCalls' = [startCalls EXCEPT ![r] = @ + 2]
    /\ plugins' = Append(plugins, r)

\* The record LoadPlugin pushes: key inserted, start called once, no thread yet.
PushRecord(p, l) ==
    LET r == numRecs + 1 IN
    /\ numRecs' = r
    /\ path' = [path EXCEPT ![r] = p]
    /\ hasOnClose' = [hasOnClose EXCEPT ![r] = LibHasOnClose(l)]
    /\ libOpen' = [libOpen EXCEPT ![r] = TRUE]
    /\ loaded_plugins' = loaded_plugins \cup {p}
    /\ startCalls' = [startCalls EXCEPT ![r] = @ + 1]
    /\ plugins' = Append(plugins, r)

\* LoadPlugin runs under plugins_mutex from its first to its last statement.
LoadPlugin(p, l) ==
    /\ UiCanCall
    /\ plugins_mutex = NoOwner
    /\ LoadSucceeds(p, l) => numRecs < MaxRecords
    /\ uiCalls' = uiCalls + 1
    /\ IF LoadDedup(p, l)
          THEN UNCHANGED <<aborted, plugins, loaded_plugins, last_error, looseHandles,
                           numRecs, path, hasOnClose, libOpen, startCalls>>
          ELSE IF LoadNullVersionCall(p, l)
          THEN \* pluginVersion() is a call through a null pointer
               /\ aborted' = TRUE
               /\ looseHandles' = looseHandles + 1
               /\ UNCHANGED <<plugins, loaded_plugins, last_error, numRecs, path,
                              hasOnClose, libOpen, startCalls>>
          ELSE IF LoadSucceeds(p, l)
          THEN /\ PushRecord(p, l)
               /\ UNCHANGED <<aborted, last_error, looseHandles>>
          ELSE \* return false; the handle of a library that did open is not closed
               /\ last_error' = LoadError(p, l)
               /\ looseHandles' = IF LibOpens(l) THEN looseHandles + 1 ELSE looseHandles
               /\ UNCHANGED <<aborted, plugins, loaded_plugins, numRecs, path,
                              hasOnClose, libOpen, startCalls>>
    /\ UNCHANGED <<guestVars, overlayVars, relock, modifier, destructorVars, active, pacingThread, pacingThreadsCreated, temp_plugins_to_remove, plugins_mutex,
                   ready, processedMainLoop, encounteredVsync, hasStopped, pluginThread, workersCreated,
                   pluginMutex, waiters, wpc, faCalls, dpc, di, closeIdx, uiBlocked,
                   uiIterating, onCloseCalls, callbackCalls, enteredSinceTick>>

\* RemovePlugin locks plugins_mutex and calls IsPluginLoaded, which locks it again
\* on the same thread.
RemovePlugin(p) ==
    /\ UiCanCall
    /\ plugins_mutex = NoOwner
    /\ uiCalls' = uiCalls + 1
    /\ IF relock = "recursive"
          THEN /\ loaded_plugins' = loaded_plugins \ {p}
               /\ UNCHANGED <<aborted, plugins_mutex, uiBlocked>>
          ELSE IF relock = "throw"
          THEN /\ aborted' = TRUE
               /\ UNCHANGED <<loaded_plugins, plugins_mutex, uiBlocked>>
          ELSE /\ plugins_mutex' = "ui"
               /\ uiBlocked' = TRUE
               /\ UNCHANGED <<aborted, loaded_plugins>>
    /\ UNCHANGED <<guestVars, overlayVars, relock, modifier, destructorVars, active, pacingThread, pacingThreadsCreated, plugins, temp_plugins_to_remove,
                   last_error, looseHandles, numRecs, recordVars, wpc, faCalls, dpc, di,
                   closeIdx, uiIterating, historyVars>>

\* PluginDialog::UpdateAvailablePlugins up to the call of GetAllLoadedPlugins,
\* whose lock_guard is released when it returns the reference to loaded_plugins.
UpdateAvailablePlugins ==
    /\ UiCanCall
    /\ plugins_mutex = NoOwner
    /\ uiIterating' = TRUE
    /\ uiCalls' = uiCalls + 1
    /\ UNCHANGED <<guestVars, overlayVars, relock, modifier, destructorVars, aborted, managerVars, recordVars, wpc, faCalls, dpc, di,
                   closeIdx, uiBlocked, historyVars>>

\* The loop of UpdateAvailablePlugins over the returned reference: each path
\* read from loaded_plugins has its item checked, and the itemChanged signal
\* calls LoadPlugin for that path, which takes plugins_mutex and finds the key.
CheckLoadedItems ==
    /\ ~aborted
    /\ uiIterating
    /\ loaded_plugins = {} \/ plugins_mutex = NoOwner
    /\ uiIterating' = FALSE
    /\ UNCHANGED <<guestVars, overlayVars, relock, modifier, destructorVars, aborted, managerVars, recordVars, wpc, faCalls, dpc, di,
                   closeIdx, uiCalls, uiBlocked, historyVars>>

\* The UI thread makes one call: any plugin file, any library behind it.
UiStep ==
    \/ \E b \in BOOLEAN : uiCalls < MaxUiCalls /\ SetActive(b)
    \/ \E p \in Paths, l \in LibKinds : uiCalls < MaxUiCalls /\ LoadPlugin(p, l)
    \/ \E p \in Paths : uiCalls < MaxUiCalls /\ RemovePlugin(p)

\* The UI thread makes one call, the plugins directory holding a single file.
OnePluginUiStep ==
    \/ \E b \in BOOLEAN : uiCalls < MaxOnePluginUiCalls /\ SetActive(b)
    \/ \E l \in OnePluginLibKinds :
          uiCalls < MaxOnePluginUiCalls /\ LoadPlugin(OnePluginPath, l)
    \/ uiCalls < MaxOnePluginUiCalls /\ RemovePlugin(OnePluginPath)

\* The UI thread with the dialog's list refresh among its calls.
DialogUiStep ==
    \/ \E b \in BOOLEAN : uiCalls < MaxDialogUiCalls /\ SetActive(b)
    \/ \E l \in OnePluginLibKinds :
          uiCalls < MaxDialogUiCalls /\ LoadPlugin(OnePluginPath, l)
    \/ uiCalls < MaxDialogUiCalls /\ RemovePlugin(OnePluginPath)
    \/ uiCalls < MaxDialogUiCalls /\ UpdateAvailablePlugins
    \/ CheckLoadedItems

\* ------------------------------------------------- the condition variable
\* Where a thread woken from pluginCv.wait continues: it must take pluginMutex
\* again before it evaluates its predicate.
WokenWorkerPc(pc) == IF pc = "fa_waiting" THEN "fa_relock" ELSE "lock"

\* pluginCv.notify_one() of record r by a worker: wakes one waiting driver, if any.
NotifyDriver(r) ==
    IF waiters[r] \cap Drivers = {}
       THEN UNCHANGED <<waiters, dpc>>
       ELSE \E d \in waiters[r] \cap Drivers :
               /\ waiters' = [waiters EXCEPT ![r] = @ \ {d}]
               /\ dpc' = [dpc EXCEPT ![d] = "ps_lock"]

\* pluginCv.notify_one() of record r by a driver: wakes the worker, if it waits.
NotifyWorker(r) ==
    IF "worker" \in waiters[r]
       THEN /\ waiters' = [waiters EXCEPT ![r] = @ \ {"worker"}]
            /\ wpc' = [wpc EXCEPT ![r] = WokenWorkerPc(wpc[r])]
       ELSE UNCHANGED <<waiters, wpc>>

\* ------------------------------------------------------------ driver threads
\* The record the driver's for loop is at.
Cur(d) == plugins[di[d]]

\* Faulty variant of BoundaryFlag: the two entry points key on each other's flag.
BoundaryFlag_Swapped(d, r) ==
    IF d = "vsync" THEN processedMainLoop[r] ELSE encounteredVsync[r]

\* The boundary flag a driver keys on: encounteredVsync for the vsync entry
\* point, processedMainLoop for the pacing entry point.
BoundaryFlag(d, r) == IF d = "vsync" THEN encounteredVsync[r] ELSE processedMainLoop[r]

\* Faulty variant of WaitPredicate: ProcessScript does not wait for the worker.
WaitPredicate_NoWait(r) == TRUE

\* Faulty variant of WaitPredicate: ProcessScript waits until the worker has taken
\* ready, not until it has finished.
WaitPredicate_Started(r) == ~ready[r]

\* The predicate ProcessScript waits for.
WaitPredicate(r) == processedMainLoop[r] \/ encounteredVsync[r]

\* Faulty variant of ShouldUnload: the key-set is not consulted.
ShouldUnload_IgnoresKeySet(r) == processedMainLoop[r]

\* ProcessScript's unload check, made once the predicate holds.
ShouldUnload(r) == processedMainLoop[r] /\ path[r] \notin loaded_plugins

\* The vsync entry point repeats ProcessScript until this holds.
VsyncLoopBreaks(r) == encounteredVsync[r] \/ hasStopped[r]

\* Faulty variant of IsActive: the entry points do not consult the flag.
IsActive_Always == TRUE

\* IsActive: the load of the active flag.
IsActive == active

\* Faulty variant of AfterCall: the pacing thread does not test the run flag.
AfterCall_NeverExits(d) == "idle"

\* Where a driver is once its entry point has returned.  The emulator is back
\* between vsync events; the pacing thread is at the head of its loop, while
\* (run_main_loop_thread.load()), and either sleeps towards the next call or
\* leaves the thread function.
AfterCall(d) == IF d = "pacing" /\ ~run_main_loop_thread THEN "exited" ELSE "idle"

\* A call of ProcessScriptFromVsync / ProcessScriptFromMainLoop: if (IsActive()).
\* The emulator makes no call into a manager whose destructor has begun.
DriverEnter(d) ==
    /\ ~aborted
    /\ dpc[d] = "idle"
    /\ d = "vsync" => dtor = "none"
    /\ dpc' = [dpc EXCEPT ![d] = IF IsActive THEN "lock" ELSE AfterCall(d)]
    /\ UNCHANGED <<guestVars, overlayVars, relock, modifier, destructorVars, aborted, managerVars, recordVars, wpc, faCalls, di, closeIdx,
                   uiVars, historyVars>>

\* std::lock_guard lock{plugins_mutex}; and the start of the for loop.
DriverLock(d) ==
    /\ ~aborted
    /\ dpc[d] = "lock"
    /\ plugins_mutex = NoOwner
    /\ plugins_mutex' = d
    /\ di' = [di EXCEPT ![d] = 1]
    /\ dpc' = [dpc EXCEPT ![d] = "loop"]
    /\ enteredSinceTick' = [r \in RecIds |-> FALSE]
    /\ UNCHANGED <<guestVars, overlayVars, relock, modifier, destructorVars, aborted, active, pacingThread, pacingThreadsCreated, plugins, loaded_plugins,
                   temp_plugins_to_remove, last_error, looseHandles, numRecs, recordVars, wpc,
                   faCalls, closeIdx, uiVars, startCalls, onCloseCalls, callbackCalls>>

\* The loop head and the load of the record's boundary flag.
DriverCheck(d) ==
    /\ ~aborted
    /\ dpc[d] = "loop"
    /\ IF di[d] > Len(plugins)
          THEN /\ dpc' = [dpc EXCEPT ![d] = "closings"]
               /\ closeIdx' = 1
               /\ UNCHANGED di
          ELSE IF BoundaryFlag(d, Cur(d))
          THEN /\ dpc' = [dpc EXCEPT ![d] = "clear"]
               /\ UNCHANGED <<di, closeIdx>>
          ELSE /\ di' = [di EXCEPT ![d] = @ + 1]
               /\ UNCHANGED <<dpc, closeIdx>>
    /\ UNCHANGED <<guestVars, overlayVars, relock, modifier, destructorVars, aborted, managerVars, recordVars, wpc, faCalls, uiVars,
                   historyVars>>

\* plugin->encounteredVsync = false; / plugin->processedMainLoop = false;
DriverClear(d) ==
    /\ ~aborted
    /\ dpc[d] = "clear"
    /\ IF d = "vsync"
          THEN /\ encounteredVsync' = [encounteredVsync EXCEPT ![Cur(d)] = FALSE]
               /\ UNCHANGED processedMainLoop
          ELSE /\ processedMainLoop' = [processedMainLoop EXCEPT ![Cur(d)] = FALSE]
               /\ UNCHANGED encounteredVsync
    /\ dpc' = [dpc EXCEPT ![d] = "ps_thread"]
    /\ UNCHANGED <<guestVars, overlayVars, relock, modifier, destructorVars, aborted, managerVars, path, hasOnClose, ready, hasStopped,
                   pluginThread, workersCreated, pluginMutex, waiters, libOpen, wpc, faCalls, di,
                   closeIdx, uiVars, historyVars>>

\* Faulty variant of NeedsWorker: a thread is created on every call.
NeedsWorker_Always(r) == TRUE

\* ProcessScript: if (!plugin->pluginThread).
NeedsWorker(r) == ~pluginThread[r]

\* ProcessScript: create the worker if the record has none.
PS_EnsureThread(d) ==
    /\ ~aborted
    /\ dpc[d] = "ps_thread"
    /\ IF NeedsWorker(Cur(d))
          THEN /\ pluginThread' = [pluginThread EXCEPT ![Cur(d)] = TRUE]
               /\ workersCreated' = [workersCreated EXCEPT ![Cur(d)] = @ + 1]
               /\ wpc' = [wpc EXCEPT ![Cur(d)] = "lock"]
          ELSE UNCHANGED <<pluginThread, workersCreated, wpc>>
    /\ dpc' = [dpc EXCEPT ![d] = "ps_ready"]
    /\ UNCHANGED <<guestVars, overlayVars, relock, modifier, destructorVars, aborted, managerVars, path, hasOnClose, ready,
                   processedMainLoop, encounteredVsync, hasStopped, pluginMutex, waiters,
                   libOpen, faCalls, di, closeIdx, uiVars, historyVars>>

\* ProcessScript: { lock_guard lk(pluginMutex); ready = true; }
PS_SetReady(d) ==
    /\ ~aborted
    /\ dpc[d] = "ps_ready"
    /\ pluginMutex[Cur(d)] = NoOwner
    /\ ready' = [ready EXCEPT ![Cur(d)] = TRUE]
    /\ dpc' = [dpc EXCEPT ![d] = "ps_notify"]
    /\ UNCHANGED <<guestVars, overlayVars, relock, modifier, destructorVars, aborted, managerVars, path, hasOnClose, processedMainLoop,
                   encounteredVsync, hasStopped, pluginThread, workersCreated, pluginMutex, waiters,
                   libOpen, wpc, faCalls, di, closeIdx, uiVars, historyVars>>

\* ProcessScript: pluginCv.notify_one();
PS_Notify(d) ==
    /\ ~aborted
    /\ dpc[d] = "ps_notify"
    /\ NotifyWorker(Cur(d))
    /\ dpc' = [dpc EXCEPT ![d] = "ps_lock"]
    /\ UNCHANGED <<guestVars, overlayVars, relock, modifier, destructorVars, aborted, managerVars, path, hasOnClose, ready,
                   processedMainLoop, encounteredVsync, hasStopped, pluginThread, workersCreated,
                   pluginMutex, libOpen, faCalls, di, closeIdx, uiVars, historyVars>>

\* ProcessScript: unique_lock lk(pluginMutex), and the lock taken again inside
\* pluginCv.wait after a wake-up.
PS_Lock(d) ==
    /\ ~aborted
    /\ dpc[d] = "ps_lock"
    /\ pluginMutex[Cur(d)] = NoOwner
    /\ pluginMutex' = [pluginMutex EXCEPT ![Cur(d)] = d]
    /\ dpc' = [dpc EXCEPT ![d] = "ps_pred"]
    /\ UNCHANGED <<guestVars, overlayVars, relock, modifier, destructorVars, aborted, managerVars, path, hasOnClose, ready,
                   processedMainLoop, encounteredVsync, hasStopped, pluginThread, workersCreated, waiters,
                   libOpen, wpc, faCalls, di, closeIdx, uiVars, historyVars>>

\* ProcessScript: the predicate of pluginCv.wait, evaluated with pluginMutex held;
\* when it holds, the unload check, and lk goes out of scope.
PS_Pred(d) ==
    /\ ~aborted
    /\ dpc[d] = "ps_pred"
    /\ IF WaitPredicate(Cur(d))
          THEN /\ IF ShouldUnload(Cur(d))
                     THEN /\ hasStopped' = [hasStopped EXCEPT ![Cur(d)] = TRUE]
                          /\ temp_plugins_to_remove' = Append(temp_plugins_to_remove, Cur(d))
                     ELSE UNCHANGED <<hasStopped, temp_plugins_to_remove>>
               /\ pluginMutex' = [pluginMutex EXCEPT ![Cur(d)] = NoOwner]
               /\ dpc' = [dpc EXCEPT ![d] = "ps_ret"]
          ELSE /\ dpc' = [dpc EXCEPT ![d] = "ps_block"]
               /\ UNCHANGED <<hasStopped, temp_plugins_to_remove, pluginMutex>>
    /\ UNCHANGED <<guestVars, overlayVars, relock, modifier, destructorVars, aborted, active, pacingThread, pacingThreadsCreated, plugins, loaded_plugins,
                   last_error, looseHandles, plugins_mutex, numRecs, path, hasOnClose, ready,
                   processedMainLoop, encounteredVsync, pluginThread, workersCreated, waiters, libOpen,
                   wpc, faCalls, di, closeIdx, uiVars, historyVars>>

\* ProcessScript: pluginCv.wait releases pluginMutex and blocks.
PS_Block(d) ==
    /\ ~aborted
    /\ dpc[d] = "ps_block"
    /\ pluginMutex' = [pluginMutex EXCEPT ![Cur(d)] = NoOwner]
    /\ waiters' = [waiters EXCEPT ![Cur(d)] = @ \cup {d}]
    /\ dpc' = [dpc EXCEPT ![d] = "ps_waiting"]
    /\ UNCHANGED <<guestVars, overlayVars, relock, modifier, destructorVars, aborted, managerVars, path, hasOnClose, ready,
                   processedMainLoop, encounteredVsync, hasStopped, pluginThread, workersCreated, libOpen,
                   wpc, faCalls, di, closeIdx, uiVars, historyVars>>

\* Faulty variant of RepeatsPass: both entry points repeat the pass until the
\* record is stopped.
RepeatsPass_UntilStopped(d, r) == ~hasStopped[r]

\* Faulty variant of RepeatsPass: either entry point repeats the pass until a vsync
\* boundary, stopped or not.
RepeatsPass_IgnoresStop(d, r) == ~encounteredVsync[r]

\* Faulty variant of RepeatsPass: the pacing entry point repeats the pass too.
RepeatsPass_AnyDriver(d, r) == ~VsyncLoopBreaks(r)

\* while (true) { ProcessScript(plugin); if (...) break; } in the vsync entry
\* point; the pacing entry point calls ProcessScript once.
RepeatsPass(d, r) == d = "vsync" /\ ~VsyncLoopBreaks(r)

\* ProcessScript has returned to its entry point: the vsync entry point repeats
\* the pass until a vsync boundary or a stop, the pacing entry point goes on to
\* the next record.
PS_Return(d) ==
    /\ ~aborted
    /\ dpc[d] = "ps_ret"
    /\ IF RepeatsPass(d, Cur(d))
          THEN /\ dpc' = [dpc EXCEPT ![d] = "ps_thread"]
               /\ UNCHANGED di
          ELSE /\ dpc' = [dpc EXCEPT ![d] = "loop"]
               /\ di' = [di EXCEPT ![d] = @ + 1]
    /\ UNCHANGED <<guestVars, overlayVars, relock, modifier, destructorVars, aborted, managerVars, recordVars, wpc, faCalls, closeIdx,
                   uiVars, historyVars>>

\* Faulty variant of CallOnClose: the close handle is called a second time.
CallOnClose_Twice(d, r) ==
    [onCloseCalls EXCEPT ![r] = IF hasOnClose[r] THEN Append(Append(@, d), d) ELSE @]

\* HandlePluginClosings: if (closeFunction) closeFunction(); on the thread d that
\* runs the entry point.
CallOnClose(d, r) ==
    [onCloseCalls EXCEPT ![r] = IF hasOnClose[r] THEN Append(@, d) ELSE @]

\* Faulty variant of JoinReturns: the worker is not waited for.
JoinReturns_NoJoin(r) == TRUE

\* HandlePluginClosings: plugin->pluginThread->join() returns once the worker has
\* left PluginThreadExecuter.
JoinReturns(r) == wpc[r] = "done"

\* plugins with the record r erased.
EraseRecord(r) == SelectSeq(plugins, LAMBDA x : x # r)

\* HandlePluginClosings, one record of temp_plugins_to_remove at a time: on_close
\* (if exported); then pluginThread->join(), which returns once the worker has
\* left PluginThreadExecuter, the library is closed, the record erased and the
\* list-changed callback called; after the loop the list is cleared and the entry
\* point returns, releasing plugins_mutex.
HandlePluginClosings(d) ==
    /\ ~aborted
    /\ dpc[d] \in {"closings", "join"}
    /\ IF dpc[d] = "join"
          THEN LET r == temp_plugins_to_remove[closeIdx] IN
               /\ JoinReturns(r)
               /\ libOpen' = [libOpen EXCEPT ![r] = FALSE]
               /\ plugins' = EraseRecord(r)
               /\ callbackCalls' = callbackCalls + 1
               /\ closeIdx' = closeIdx + 1
               /\ dpc' = [dpc EXCEPT ![d] = "closings"]
               /\ UNCHANGED <<temp_plugins_to_remove, plugins_mutex, onCloseCalls>>
          ELSE IF closeIdx <= Len(temp_plugins_to_remove)
          THEN LET r == temp_plugins_to_remove[closeIdx] IN
               /\ onCloseCalls' = CallOnClose(d, r)
               /\ dpc' = [dpc EXCEPT ![d] = "join"]
               /\ UNCHANGED <<temp_plugins_to_remove, plugins_mutex, plugins, libOpen,
                              callbackCalls, closeIdx>>
          ELSE /\ temp_plugins_to_remove' = <<>>
               /\ plugins_mutex' = NoOwner
               /\ dpc' = [dpc EXCEPT ![d] = AfterCall(d)]
               /\ UNCHANGED <<plugins, libOpen, callbackCalls, closeIdx, onCloseCalls>>
    /\ UNCHANGED <<guestVars, overlayVars, relock, modifier, destructorVars, aborted, active, pacingThread, pacingThreadsCreated, loaded_plugins, last_error,
                   looseHandles,
                   numRecs, path, hasOnClose, ready, processedMainLoop, encounteredVsync,
                   hasStopped, pluginThread, workersCreated, pluginMutex, waiters, wpc, faCalls, di,
                   uiVars, startCalls, enteredSinceTick>>

DriverStep(d) ==
    \/ DriverEnter(d)
    \/ DriverLock(d)
    \/ DriverCheck(d)
    \/ DriverClear(d)
    \/ PS_EnsureThread(d)
    \/ PS_SetReady(d)
    \/ PS_Notify(d)
    \/ PS_Lock(d)
    \/ PS_Pred(d)
    \/ PS_Block(d)
    \/ PS_Return(d)
    \/ HandlePluginClosings(d)

\* ------------------------------------------------------------ worker thread
\* unique_lock lk(pluginMutex) at the top of PluginThreadExecuter's loop, and
\* the lock taken again inside pluginCv.wait after a wake-up (there or in
\* frame-advance).
W_Lock(r) ==
    /\ ~aborted
    /\ wpc[r] \in {"lock", "fa_relock"}
    /\ pluginMutex[r] = NoOwner
    /\ pluginMutex' = [pluginMutex EXCEPT ![r] = "worker"]
    /\ wpc' = [wpc EXCEPT ![r] = IF wpc[r] = "lock" THEN "pred" ELSE "fa_pred"]
    /\ UNCHANGED <<guestVars, overlayVars, relock, modifier, destructorVars, aborted, managerVars, path, hasOnClose, ready,
                   processedMainLoop, encounteredVsync, hasStopped, pluginThread, workersCreated, waiters,
                   libOpen, faCalls, dpc, di, closeIdx, uiVars, historyVars>>

\* EnsureHidAppletLoaded: the HID facade is bound once, when the current process
\* exists and is running.
EnsureHidAppletLoaded(r) ==
    IF ~hidAppletResource[r] /\ processStatus = "running"
       THEN [hidAppletResource EXCEPT ![r] = TRUE]
       ELSE hidAppletResource

\* PluginThreadExecuter: pluginCv.wait(lk, ready) with pluginMutex held.  While
\* ready is false the wait releases pluginMutex and blocks; ready is written only
\* under pluginMutex, so nothing can fall between the predicate and the block and
\* the two are one step.  Once ready: ready = false, then the stop check
\* (processedMainLoop = true and return, lk released by its destructor) or the
\* call of mainLoopFunction, lk still held.
W_Pred(r) ==
    /\ ~aborted
    /\ wpc[r] = "pred"
    /\ IF ready[r]
          THEN /\ ready' = [ready EXCEPT ![r] = FALSE]
               /\ IF hasStopped[r]
                     THEN /\ processedMainLoop' = [processedMainLoop EXCEPT ![r] = TRUE]
                          /\ pluginMutex' = [pluginMutex EXCEPT ![r] = NoOwner]
                          /\ wpc' = [wpc EXCEPT ![r] = "done"]
                          /\ UNCHANGED faCalls
                     ELSE /\ wpc' = [wpc EXCEPT ![r] = "main"]
                          /\ faCalls' = [faCalls EXCEPT ![r] = 0]
                          /\ UNCHANGED <<processedMainLoop, pluginMutex>>
               /\ hidAppletResource' =
                     IF hasStopped[r] THEN hidAppletResource ELSE EnsureHidAppletLoaded(r)
               /\ UNCHANGED waiters
          ELSE /\ pluginMutex' = [pluginMutex EXCEPT ![r] = NoOwner]
               /\ waiters' = [waiters EXCEPT ![r] = @ \cup {"worker"}]
               /\ wpc' = [wpc EXCEPT ![r] = "waiting"]
               /\ UNCHANGED <<ready, processedMainLoop, faCalls, hidAppletResource>>
    /\ enteredSinceTick' = IF ready[r] /\ ~hasStopped[r]
                              THEN [enteredSinceTick EXCEPT ![r] = TRUE]
                              ELSE enteredSinceTick
    /\ UNCHANGED <<processStatus, guestMemory, lastCall, overlayVars, relock, modifier, destructorVars, aborted, managerVars, path, hasOnClose, encounteredVsync,
                   hasStopped, pluginThread, workersCreated, libOpen, dpc, di, closeIdx, uiVars,
                   startCalls, onCloseCalls, callbackCalls>>

\* The plugin's main loop calls the host's emu_frameadvance.
Plugin_CallFrameAdvance(r) ==
    /\ ~aborted
    /\ wpc[r] = "main"
    /\ faCalls[r] < MaxFrameAdvance
    /\ wpc' = [wpc EXCEPT ![r] = "fa_set"]
    /\ UNCHANGED <<guestVars, overlayVars, relock, modifier, destructorVars, aborted, managerVars, recordVars, faCalls, dpc, di, closeIdx,
                   uiVars, historyVars>>

\* emu_frameadvance: self->encounteredVsync = true;
FA_SetTrue(r) ==
    /\ ~aborted
    /\ wpc[r] = "fa_set"
    /\ encounteredVsync' = [encounteredVsync EXCEPT ![r] = TRUE]
    /\ wpc' = [wpc EXCEPT ![r] = "fa_clear"]
    /\ UNCHANGED <<guestVars, overlayVars, relock, modifier, destructorVars, aborted, managerVars, path, hasOnClose, ready,
                   processedMainLoop, hasStopped, pluginThread, workersCreated, pluginMutex, waiters,
                   libOpen, faCalls, dpc, di, closeIdx, uiVars, historyVars>>

\* emu_frameadvance: self->encounteredVsync = false;
FA_SetFalse(r) ==
    /\ ~aborted
    /\ wpc[r] = "fa_clear"
    /\ encounteredVsync' = [encounteredVsync EXCEPT ![r] = FALSE]
    /\ wpc' = [wpc EXCEPT ![r] = "fa_notify"]
    /\ UNCHANGED <<guestVars, overlayVars, relock, modifier, destructorVars, aborted, managerVars, path, hasOnClose, ready,
                   processedMainLoop, hasStopped, pluginThread, workersCreated, pluginMutex, waiters,
                   libOpen, faCalls, dpc, di, closeIdx, uiVars, historyVars>>

\* emu_frameadvance: self->pluginCv.notify_one();
FA_Notify(r) ==
    /\ ~aborted
    /\ wpc[r] = "fa_notify"
    /\ NotifyDriver(r)
    /\ wpc' = [wpc EXCEPT ![r] = "fa_lock"]
    /\ UNCHANGED <<guestVars, overlayVars, relock, modifier, destructorVars, aborted, managerVars, path, hasOnClose, ready,
                   processedMainLoop, encounteredVsync, hasStopped, pluginThread, workersCreated,
                   pluginMutex, libOpen, faCalls, di, closeIdx, uiVars, historyVars>>

\* emu_frameadvance: unique_lock lk(self->pluginMutex) on the worker, which holds
\* pluginMutex since PluginThreadExecuter's wait returned: the relock blocks for
\* ever (no step), throws through the plugin's frames (the process terminates) or
\* is counted.
FA_Lock(r) ==
    /\ ~aborted
    /\ wpc[r] = "fa_lock"
    /\ relock # "deadlock"
    /\ IF relock = "throw"
          THEN /\ aborted' = TRUE
               /\ UNCHANGED wpc
          ELSE /\ wpc' = [wpc EXCEPT ![r] = "fa_pred"]
               /\ UNCHANGED aborted
    /\ UNCHANGED <<guestVars, overlayVars, relock, modifier, destructorVars, managerVars, recordVars, faCalls, dpc, di, closeIdx, uiVars,
                   historyVars>>

\* emu_frameadvance: pluginCv.wait(lk, ready) and ready = false, as in W_Pred;
\* then the call returns into the plugin's main loop, the outer lk still held.
FA_Pred(r) ==
    /\ ~aborted
    /\ wpc[r] = "fa_pred"
    /\ IF ready[r]
          THEN /\ ready' = [ready EXCEPT ![r] = FALSE]
               /\ faCalls' = [faCalls EXCEPT ![r] = @ + 1]
               /\ wpc' = [wpc EXCEPT ![r] = "main"]
               /\ UNCHANGED <<pluginMutex, waiters>>
          ELSE /\ pluginMutex' = [pluginMutex EXCEPT ![r] = NoOwner]
               /\ waiters' = [waiters EXCEPT ![r] = @ \cup {"worker"}]
               /\ wpc' = [wpc EXCEPT ![r] = "fa_waiting"]
               /\ UNCHANGED <<ready, faCalls>>
    /\ UNCHANGED <<guestVars, overlayVars, relock, modifier, destructorVars, aborted, managerVars, path, hasOnClose, processedMainLoop,
                   encounteredVsync, hasStopped, pluginThread, workersCreated, libOpen, dpc, di, closeIdx,
                   uiVars, historyVars>>

\* The plugin's main loop returns; PluginThreadExecuter: lk.unlock();
Plugin_Return(r) ==
    /\ ~aborted
    /\ wpc[r] = "main"
    /\ pluginMutex' = [pluginMutex EXCEPT ![r] = NoOwner]
    /\ wpc' = [wpc EXCEPT ![r] = "set_pml"]
    /\ UNCHANGED <<guestVars, overlayVars, relock, modifier, destructorVars, aborted, managerVars, path, hasOnClose, ready,
                   processedMainLoop, encounteredVsync, hasStopped, pluginThread, workersCreated, waiters,
                   libOpen, faCalls, dpc, di, closeIdx, uiVars, historyVars>>

\* PluginThreadExecuter: plugin->processedMainLoop = true; (pluginMutex not held)
W_StoreProcessed(r) ==
    /\ ~aborted
    /\ wpc[r] = "set_pml"
    /\ processedMainLoop' = [processedMainLoop EXCEPT ![r] = TRUE]
    /\ wpc' = [wpc EXCEPT ![r] = "set_ev"]
    /\ UNCHANGED <<guestVars, overlayVars, relock, modifier, destructorVars, aborted, managerVars, path, hasOnClose, ready,
                   encounteredVsync, hasStopped, pluginThread, workersCreated, pluginMutex, waiters,
                   libOpen, faCalls, dpc, di, closeIdx, uiVars, historyVars>>

\* PluginThreadExecuter: plugin->encounteredVsync = false;
W_StoreVsync(r) ==
    /\ ~aborted
    /\ wpc[r] = "set_ev"
    /\ encounteredVsync' = [encounteredVsync EXCEPT ![r] = FALSE]
    /\ wpc' = [wpc EXCEPT ![r] = "notify"]
    /\ UNCHANGED <<guestVars, overlayVars, relock, modifier, destructorVars, aborted, managerVars, path, hasOnClose, ready,
                   processedMainLoop, hasStopped, pluginThread, workersCreated, pluginMutex, waiters,
                   libOpen, faCalls, dpc, di, closeIdx, uiVars, historyVars>>

\* PluginThreadExecuter: plugin->pluginCv.notify_one(); and back to the loop's top.
W_Notify(r) ==
    /\ ~aborted
    /\ wpc[r] = "notify"
    /\ NotifyDriver(r)
    /\ wpc' = [wpc EXCEPT ![r] = "lock"]
    /\ UNCHANGED <<guestVars, overlayVars, relock, modifier, destructorVars, aborted, managerVars, path, hasOnClose, ready,
                   processedMainLoop, encounteredVsync, hasStopped, pluginThread, workersCreated,
                   pluginMutex, libOpen, faCalls, di, closeIdx, uiVars, historyVars>>

WorkerStep(r) ==
    \/ W_Lock(r)
    \/ W_Pred(r)
    \/ Plugin_CallFrameAdvance(r)
    \/ FA_SetTrue(r)
    \/ FA_SetFalse(r)
    \/ FA_Notify(r)
    \/ FA_Lock(r)
    \/ FA_Pred(r)
    \/ Plugin_Return(r)
    \/ W_StoreProcessed(r)
    \/ W_StoreVsync(r)
    \/ W_Notify(r)

\* ------------------------------------------------------------- the overlay
\* Faulty variant of IsPoweredOn: the overlay calls do not look at the guest.
IsPoweredOn_Always(r) == TRUE

\* self->system->IsPoweredOn() of the record's system.
IsPoweredOn(r) == poweredOn

\* RegenerateGuiRendererIfNeeded: the canvas is made anew when there is none yet
\* or when the dock setting differs from the one it was made for.
ThisDockedState == IF use_docked_mode THEN "Docked" ELSE "Undocked"

\* Faulty variant of NeedsRegenerate: only the first call makes a canvas.
NeedsRegenerate_OnlyFirst == lastDockedState = "Neither"

NeedsRegenerate == lastDockedState = "Neither" \/ lastDockedState # ThisDockedState
RegeneratedPixmap ==
    IF NeedsRegenerate THEN [size |-> ThisDockedState, px |-> ClearPixels] ELSE guiPixmap
RegeneratedPainter == IF NeedsRegenerate THEN [pen |-> "black"] ELSE guiPainter

\* The painter draws with the default composition mode (source over): a
\* transparent source leaves the destination as it is.
Blend(dst, src) == IF src = "transparent" THEN dst ELSE src

\* An overlay function called by the main loop of record r. With the guest
\* powered on it regenerates the canvas if needed and then draws: pixmap, painter
\* and pc are the canvas, the painter and the worker's position after the call.
\* The call goes through self->pluginManager, which nothing ever assigns, and the
\* regeneration deletes guiPixmap and guiPainter, the first time through pointers
\* that were never initialized: the process may crash there.
OverlayCall(r, fn, pixmap, painter, pc) ==
    /\ ~aborted
    /\ wpc[r] = "main"
    /\ IF IsPoweredOn(r)
          THEN \/ /\ aborted' = TRUE
                  /\ UNCHANGED <<lastDockedState, guiPixmap, guiPainter, wpc, lastRefused>>
               \/ /\ lastDockedState' = ThisDockedState
                  /\ guiPixmap' = pixmap
                  /\ guiPainter' = painter
                  /\ wpc' = [wpc EXCEPT ![r] = pc]
                  /\ UNCHANGED <<aborted, lastRefused>>
          ELSE /\ lastRefused' = fn
               /\ UNCHANGED <<aborted, lastDockedState, guiPixmap, guiPainter, wpc>>
    /\ UNCHANGED <<relock, modifier, destructorVars, managerVars, recordVars, faCalls, dpc, di, closeIdx, uiVars,
                   historyVars, poweredOn, use_docked_mode, render_callback, renderCalls,
                   guestVars>>

\* gui_clearscreen: painter->fillRect(window, transparent).
gui_clearscreen(r) ==
    OverlayCall(r, "gui_clearscreen",
                [RegeneratedPixmap EXCEPT
                    !.px = [x \in Pixels |-> Blend(RegeneratedPixmap.px[x], "transparent")]],
                RegeneratedPainter, "main")

\* gui_drawpixel: painter->setPen(colour); painter->drawPoint(x, y).
gui_drawpixel(r, x, c) ==
    OverlayCall(r, "gui_drawpixel",
                [RegeneratedPixmap EXCEPT !.px[x] = Blend(@, c)],
                [RegeneratedPainter EXCEPT !.pen = c], "main")

\* gui_drawimage: QImage image(path); painter->drawImage(dx, dy, image, ...).
gui_drawimage(r, x, f) ==
    OverlayCall(r, "gui_drawimage",
                [RegeneratedPixmap EXCEPT !.px[x] = IF f = "null" THEN @ ELSE "image"],
                RegeneratedPainter, "main")

\* gui_render: the regeneration, then the call of RenderGui.
gui_render(r) ==
    OverlayCall(r, "gui_render", RegeneratedPixmap, RegeneratedPainter, "render_gui")

\* RenderGui on the worker's thread: std::lock_guard lock{plugins_mutex}, where
\* the worker blocks while a driver holds the mutex; then the render callback, if
\* one is installed, is called with the canvas.
RenderGui(r) ==
    /\ ~aborted
    /\ wpc[r] \in {"render_gui", "render_blocked"}
    /\ IF plugins_mutex = NoOwner
          THEN /\ renderCalls' = IF render_callback /\ renderCalls < MaxRenderCalls
                                    THEN renderCalls + 1
                                    ELSE renderCalls
               /\ wpc' = [wpc EXCEPT ![r] = "main"]
          ELSE /\ wpc[r] = "render_gui"
               /\ wpc' = [wpc EXCEPT ![r] = "render_blocked"]
               /\ UNCHANGED renderCalls
    /\ UNCHANGED <<relock, modifier, destructorVars, aborted, managerVars, recordVars, faCalls, dpc, di, closeIdx,
                   uiVars, historyVars, poweredOn, use_docked_mode, lastDockedState,
                   guiPixmap, guiPainter, render_callback, lastRefused, guestVars>>

\* The guest is started or stopped.
PowerSwitch ==
    /\ ~aborted
    /\ poweredOn' = ~poweredOn
    /\ lastRefused' = "none"
    /\ processStatus' = "none"
    /\ guestMemory' = ZeroMemory
    /\ UNCHANGED <<relock, modifier, destructorVars, aborted, managerVars, recordVars, wpc, faCalls, dpc, di,
                   closeIdx, uiVars, historyVars, use_docked_mode, lastDockedState,
                   guiPixmap, guiPainter, render_callback, renderCalls, hidAppletResource,
                   lastCall>>

\* The user changes the dock setting.
DockSwitch ==
    /\ ~aborted
    /\ use_docked_mode' = ~use_docked_mode
    /\ UNCHANGED <<relock, modifier, destructorVars, aborted, managerVars, recordVars, wpc, faCalls, dpc, di,
                   closeIdx, uiVars, historyVars, poweredOn, lastDockedState, guiPixmap,
                   guiPainter, render_callback, renderCalls, lastRefused, guestVars>>

\* SetRenderCallback: the frontend installs its callback.
SetRenderCallback ==
    /\ ~aborted
    /\ ~render_callback
    /\ render_callback' = TRUE
    /\ UNCHANGED <<relock, modifier, destructorVars, aborted, managerVars, recordVars, wpc, faCalls, dpc, di,
                   closeIdx, uiVars, historyVars, poweredOn, use_docked_mode,
                   lastDockedState, guiPixmap, guiPainter, renderCalls, lastRefused,
                   guestVars>>

\* The overlay calls a plugin's main loop can make, and the frontend's and the
\* emulator's changes of what they depend on.
OverlayStep ==
    \/ PowerSwitch
    \/ DockSwitch
    \/ SetRenderCallback
    \/ \E r \in RecIds : gui_clearscreen(r)
    \/ \E r \in RecIds, x \in Pixels, c \in PenColors : gui_drawpixel(r, x, c)
    \/ \E r \in RecIds, x \in Pixels, f \in ImageFiles : gui_drawimage(r, x, f)
    \/ \E r \in RecIds : gui_render(r)
    \/ \E r \in RecIds : RenderGui(r)

\* The UI thread loads the one plugin and activates the manager.
OverlayUiStep ==
    \/ uiCalls < MaxOverlayUiCalls /\ SetActive(TRUE)
    \/ uiCalls < MaxOverlayUiCalls /\ LoadPlugin(OnePluginPath, "full")

\* ------------------------------------------------------------ the host API
\* The scheduler's variables, which the host-API calls leave alone.
schedulerVars ==
    <<relock, modifier, destructorVars, aborted, managerVars, recordVars, wpc, faCalls, dpc, di, closeIdx, uiVars,
      historyVars>>

\* system->CurrentProcess() is not null.
ProcessExists == processStatus # "none"

\* What the emulator facade hands back: a process has its id from its creation
\* on; its memory regions, the frame counter and the tick counters are zero until
\* it runs; a pad state with a button held.
FacadeValue(fn) ==
    IF fn = "emu_getprocessid" THEN 81
    ELSE IF fn = "joypad_read" THEN 1
    ELSE IF processStatus = "running" THEN 1 ELSE 0

\* The getters of the host API, by their guard: the current process, the power
\* state, the record's HID facade handle.  emu_getmainstart and emu_getmainsize
\* evaluate the address-space start and size and return 0 all the same.
ProcessGetters == {"emu_getprocessid", "emu_getheapstart", "emu_getstackstart"}
PowerGetters == {"emu_framecount", "debugger_getclockticks", "debugger_getcputicks"}
HidGetters == {"joypad_read"}
MainGetters == {"emu_getmainstart", "emu_getmainsize"}
HostApiGetters == ProcessGetters \cup PowerGetters \cup HidGetters \cup MainGetters

ApiReturn(r, fn) ==
    IF fn \in ProcessGetters THEN (IF ProcessExists THEN FacadeValue(fn) ELSE 0)
    ELSE IF fn \in PowerGetters THEN (IF IsPoweredOn(r) THEN FacadeValue(fn) ELSE 0)
    ELSE IF fn \in HidGetters THEN (IF hidAppletResource[r] THEN FacadeValue(fn) ELSE 0)
    ELSE 0

\* The main loop of record r calls a getter.
HostApiGet(r, fn) ==
    /\ ~aborted
    /\ wpc[r] = "main"
    /\ lastCall' = [fn |-> fn, first |-> 0, last |-> 0, ret |-> ApiReturn(r, fn)]
    /\ UNCHANGED <<schedulerVars, overlayVars, processStatus, hidAppletResource, guestMemory>>

\* An address is mapped: it lies in the current process's address space.
Mapped(x) == ProcessExists /\ x < MaxAddress
RangeValid(a, b) == \A x \in a..b : Mapped(x)

\* Memory::WriteBlock: the bytes of the range that fall on mapped pages are
\* written, those on unmapped pages are skipped.
WriteBlock(a, b, v) ==
    [x \in Addresses |-> IF a <= x /\ x <= b /\ Mapped(x) THEN v ELSE guestMemory[x]]

\* memory_readbyterange(address, bytes, length) over the addresses a..b:
\* ReadBlock and true when the guest is powered on, false otherwise.
memory_readbyterange(r, a, b) ==
    /\ ~aborted
    /\ wpc[r] = "main"
    /\ lastCall' = [fn |-> "memory_readbyterange", first |-> a, last |-> b,
                    ret |-> IF IsPoweredOn(r) THEN 1 ELSE 0]
    /\ UNCHANGED <<schedulerVars, overlayVars, processStatus, hidAppletResource, guestMemory>>

\* memory_writebyterange(address, bytes, length) over the addresses a..b, every
\* byte v: WriteBlock and true when the guest is powered on, false otherwise.
memory_writebyterange(r, a, b, v) ==
    /\ ~aborted
    /\ wpc[r] = "main"
    /\ guestMemory' = IF IsPoweredOn(r) THEN WriteBlock(a, b, v) ELSE guestMemory
    /\ lastCall' = [fn |-> "memory_writebyterange", first |-> a, last |-> b,
                    ret |-> IF IsPoweredOn(r) THEN 1 ELSE 0]
    /\ UNCHANGED <<schedulerVars, overlayVars, processStatus, hidAppletResource>>

\* The emulator creates the guest process of a game being booted.
ProcessCreate ==
    /\ ~aborted
    /\ poweredOn
    /\ processStatus = "none"
    /\ processStatus' = "created"
    /\ UNCHANGED <<schedulerVars, overlayVars, hidAppletResource, guestMemory, lastCall>>

\* The guest process starts to run.
ProcessRun ==
    /\ ~aborted
    /\ processStatus = "created"
    /\ processStatus' = "running"
    /\ UNCHANGED <<schedulerVars, overlayVars, hidAppletResource, guestMemory, lastCall>>

\* The host-API calls a plugin's main loop can make, and the emulator's changes
\* of the guest.
GuestStep ==
    \/ PowerSwitch
    \/ ProcessCreate
    \/ ProcessRun
    \/ \E r \in RecIds, fn \in HostApiGetters : HostApiGet(r, fn)
    \/ \E r \in RecIds, a \in Addresses, b \in Addresses :
          a <= b /\ memory_readbyterange(r, a, b)
    \/ \E r \in RecIds, a \in Addresses, b \in Addresses, v \in Bytes :
          a <= b /\ memory_writebyterange(r, a, b, v)

\* ------------------------------------------------------------ HID keyboard
KeyboardModifiers == 0..(NumKeyboardMods - 1)

\* #define BIT(n) (1U << (n)), and the bit operations of the two lambdas on the
\* 32-bit modifier word.
BIT(n) == 2^n
BitIsSet(x, n) == (x \div BIT(n)) % 2 = 1
BitAnd(x, n) == IF BitIsSet(x, n) THEN BIT(n) ELSE 0
BitOr(x, n) == IF BitIsSet(x, n) THEN x ELSE x + BIT(n)
BitClear(x, n) == IF BitIsSet(x, n) THEN x - BIT(n) ELSE x

\* The conversion of the lambda's return expression to its return type uint8_t.
ToUint8(x) == x % 256

\* input_iskeymodifierpressed(modifier): return handle.modifier & BIT(modifier)
\* with the HID facade bound, 0 otherwise.
input_iskeymodifierpressed(r, m) ==
    /\ ~aborted
    /\ wpc[r] = "main"
    /\ lastCall' = [fn |-> "input_iskeymodifierpressed", first |-> m, last |-> 0,
                    ret |-> IF hidAppletResource[r]
                               THEN ToUint8(BitAnd(modifier, m))
                               ELSE 0]
    /\ UNCHANGED <<schedulerVars, overlayVars, processStatus, hidAppletResource, guestMemory>>

\* input_setkeymodifierpressed(modifier, ispressed): sets or clears the bit with
\* the HID facade bound, does nothing otherwise.
input_setkeymodifierpressed(r, m, ispressed) ==
    /\ ~aborted
    /\ wpc[r] = "main"
    /\ modifier' = IF ~hidAppletResource[r] THEN modifier
                   ELSE IF ispressed # 0 THEN BitOr(modifier, m)
                   ELSE BitClear(modifier, m)
    /\ lastCall' = [fn |-> "input_setkeymodifierpressed", first |-> m,
                    last |-> ispressed, ret |-> 0]
    /\ UNCHANGED <<relock, destructorVars, aborted, managerVars, recordVars, wpc, faCalls, dpc, di,
                   closeIdx, uiVars, historyVars, overlayVars, processStatus,
                   hidAppletResource, guestMemory>>

\* A state the program reaches (LoadPlugin, SetActive twice, the guest booted and
\* running, the first pacing tick): one record whose worker is in its main-loop
\* function with the HID facade bound, the pacing driver waiting for it in
\* ProcessScript.
KeyboardInit ==
    /\ relock \in RelockOutcomes
    /\ aborted = FALSE
    /\ active = TRUE
    /\ pacingThread = TRUE
    /\ pacingThreadsCreated = 1
    /\ run_main_loop_thread = TRUE
    /\ dtor = "none"
    /\ plugins = <<1>>
    /\ loaded_plugins = {OnePluginPath}
    /\ temp_plugins_to_remove = <<>>
    /\ last_error = NoError
    /\ looseHandles = 0
    /\ plugins_mutex = "pacing"
    /\ numRecs = 1
    /\ path = [r \in RecIds |-> IF r = 1 THEN OnePluginPath ELSE NoPath]
    /\ hasOnClose = [r \in RecIds |-> r = 1]
    /\ ready = [r \in RecIds |-> FALSE]
    /\ processedMainLoop = [r \in RecIds |-> r # 1]
    /\ encounteredVsync = [r \in RecIds |-> FALSE]
    /\ hasStopped = [r \in RecIds |-> FALSE]
    /\ pluginThread = [r \in RecIds |-> r = 1]
    /\ workersCreated = [r \in RecIds |-> IF r = 1 THEN 1 ELSE 0]
    /\ pluginMutex = [r \in RecIds |-> IF r = 1 THEN "worker" ELSE NoOwner]
    /\ waiters = [r \in RecIds |-> IF r = 1 THEN {"pacing"} ELSE {}]
    /\ libOpen = [r \in RecIds |-> r = 1]
    /\ wpc = [r \in RecIds |-> IF r = 1 THEN "main" ELSE "nothread"]
    /\ faCalls = [r \in RecIds |-> 0]
    /\ dpc = [d \in Drivers |-> IF d = "vsync" THEN "idle" ELSE "ps_waiting"]
    /\ di = [d \in Drivers |-> IF d = "vsync" THEN 0 ELSE 1]
    /\ closeIdx = 0
    /\ uiCalls = 3
    /\ uiBlocked = FALSE
    /\ uiIterating = FALSE
    /\ poweredOn = TRUE
    /\ use_docked_mode = FALSE
    /\ lastDockedState = "Neither"
    /\ guiPixmap = NoPixmap
    /\ guiPainter = NoPainter
    /\ render_callback = FALSE
    /\ renderCalls = 0
    /\ lastRefused = "none"
    /\ processStatus = "running"
    /\ hidAppletResource = [r \in RecIds |-> r = 1]
    /\ guestMemory = ZeroMemory
    /\ lastCall = NoCall
    /\ modifier = 0
    /\ startCalls = [r \in RecIds |-> IF r = 1 THEN 1 ELSE 0]
    /\ onCloseCalls = [r \in RecIds |-> <<>>]
    /\ callbackCalls = 0
    /\ enteredSinceTick = [r \in RecIds |-> r = 1]

\* The keyboard-modifier calls of the running main loop.
KeyboardNext ==
    \/ \E r \in RecIds, m \in KeyboardModifiers : input_iskeymodifierpressed(r, m)
    \/ \E r \in RecIds, m \in KeyboardModifiers, ispressed \in {0, 1} :
          input_setkeymodifierpressed(r, m, ispressed)

KeyboardSpec == KeyboardInit /\ [][KeyboardNext]_vars

Next ==
    \/ UiStep
    \/ \E d \in Drivers : DriverStep(d)
    \/ \E r \in RecIds : WorkerStep(r)

Spec == Init /\ [][Next]_vars

\* The same program with one plugin file in the plugins directory, where the UI
\* can make longer sequences of calls (load, run, remove, load again).
OnePluginNext ==
    \/ OnePluginUiStep
    \/ \E d \in Drivers : DriverStep(d)
    \/ \E r \in RecIds : WorkerStep(r)

OnePluginSpec == Init /\ [][OnePluginNext]_vars

\* The same program with the plugin dialog open, whose list refresh (refresh
\* button, directory change) enumerates the loaded plugins.
DialogNext ==
    \/ DialogUiStep
    \/ \E d \in Drivers : DriverStep(d)
    \/ \E r \in RecIds : WorkerStep(r)

DialogSpec == Init /\ [][DialogNext]_vars

\* The same program with a plugin whose main loop draws on the overlay.
OverlayNext ==
    \/ OverlayUiStep
    \/ \E d \in Drivers : DriverStep(d)
    \/ \E r \in RecIds : WorkerStep(r)
    \/ OverlayStep

OverlaySpec == Init /\ [][OverlayNext]_vars

\* The same program with a plugin whose main loop calls the host API while a
\* game is booted, runs and is stopped.
GuestNext ==
    \/ OverlayUiStep
    \/ \E d \in Drivers : DriverStep(d)
    \/ \E r \in RecIds : WorkerStep(r)
    \/ GuestStep

GuestSpec == Init /\ [][GuestNext]_vars

\* ~PluginManager: if (plugin_main_loop_thread) { run_main_loop_thread = false;
\* and the thread is joined next; without a pacing thread the destructor is done.
DestructorCall ==
    /\ UiCanCall
    /\ IF pacingThread
          THEN /\ run_main_loop_thread' = FALSE
               /\ dtor' = "join"
          ELSE /\ dtor' = "done"
               /\ UNCHANGED run_main_loop_thread
    /\ UNCHANGED <<relock, modifier, aborted, managerVars, recordVars, wpc, faCalls, dpc, di, closeIdx,
                   uiVars, historyVars, overlayVars, guestVars>>

\* ~PluginManager: plugin_main_loop_thread->join() returns once the pacing thread
\* has left its thread function.
DestructorJoin ==
    /\ ~aborted
    /\ dtor = "join"
    /\ dpc["pacing"] = "exited"
    /\ dtor' = "done"
    /\ UNCHANGED <<relock, modifier, aborted, managerVars, recordVars, wpc, faCalls, dpc, di, closeIdx,
                   uiVars, historyVars, overlayVars, guestVars, run_main_loop_thread>>

DestructorStep == DestructorCall \/ DestructorJoin

\* The same program with one plugin, up to the destruction of the manager.
DestructorNext ==
    \/ OverlayUiStep
    \/ \E d \in Drivers : DriverStep(d)
    \/ \E r \in RecIds : WorkerStep(r)
    \/ DestructorStep

DestructorSpec == Init /\ [][DestructorNext]_vars

\* The drivers and workers run whenever they can, and a join returns once the
\* joined thread has ended.
DestructorFairSpec ==
    /\ DestructorSpec
    /\ \A d \in Drivers : WF_vars(DriverStep(d))
    /\ \A r \in RecIds : WF_vars(WorkerStep(r))
    /\ WF_vars(DestructorJoin)

\* The threads other than the UI run whenever they can: the pacing thread and the
\* workers are scheduled by the operating system, the emulator keeps producing
\* vsync events, and a plugin's main loop eventually returns or calls
\* frame-advance.
FairSpec ==
    /\ Spec
    /\ \A d \in Drivers : WF_vars(DriverStep(d))
    /\ \A r \in RecIds : WF_vars(WorkerStep(r))

\* ------------------------------------------------------------------- claims
\* Positions of a worker.
InPluginCode(r) ==
    wpc[r] \in {"main", "fa_set", "fa_clear", "fa_notify", "render_gui", "render_blocked"}
InFrameAdvance(r) == wpc[r] \in {"fa_set", "fa_clear", "fa_notify", "fa_lock", "fa_pred",
                                 "fa_waiting", "fa_relock"}
AtWaitOnReady(r) == wpc[r] \in {"lock", "pred", "waiting", "fa_lock", "fa_pred",
                                "fa_waiting", "fa_relock"}
BlockedOnReady(r) == wpc[r] \in {"waiting", "fa_waiting"}
InPassTail(r) == wpc[r] \in {"set_ev", "notify"}

\* A driver is inside ProcessScript for record r and has set ready.
PassInFlight(d, r) ==
    /\ dpc[d] \in {"ps_notify", "ps_lock", "ps_pred", "ps_block", "ps_waiting"}
    /\ Cur(d) = r

ExactlyOneFlag(r) == processedMainLoop[r] # encounteredVsync[r]

InList(r) == \E i \in 1..Len(plugins) : plugins[i] = r

\* The worker is parked: blocked in a wait on ready that nobody has set.
Parked(r) == BlockedOnReady(r) /\ ~ready[r]

\* The worker is at a main-loop boundary: neither executing the main-loop
\* function nor inside frame-advance.
AtMainLoopBoundary(r) == ~InPluginCode(r) /\ ~InFrameAdvance(r)

\* The driver is about to read the flags of the record its loop is at.
ReadsFlags(d) ==
    \/ dpc[d] = "loop" /\ di[d] <= Len(plugins)
    \/ dpc[d] = "ps_pred"

\* C2: whenever ProcessScript has returned for a record, and whenever a driver
\* reads the boundary flags of a parked worker (at the top of
\* PluginThreadExecuter or inside frame-advance), exactly one of
\* processedMainLoop and encounteredVsync is true.
C2_ParkedExclusivity ==
    \A d \in Drivers :
        /\ dpc[d] = "ps_ret" => ExactlyOneFlag(Cur(d))
        /\ ReadsFlags(d) /\ Parked(Cur(d)) => ExactlyOneFlag(Cur(d))

\* C3: on_close is called, the library closed and the record erased only while
\* the record's worker is at a main-loop boundary and the record's path is
\* absent from loaded_plugins.
C3_BoundaryOnlyTeardown ==
    [][\A r \in RecIds :
          (\/ onCloseCalls'[r] # onCloseCalls[r]
           \/ libOpen[r] /\ ~libOpen'[r]
           \/ InList(r) /\ ~InList(r)')
          => AtMainLoopBoundary(r) /\ path[r] \notin loaded_plugins]_vars

\* C3 witness: on_close has been called for a record.
C3_Witness == \E r \in RecIds : onCloseCalls[r] # <<>>

\* C4: on_close is called at most once for every record, and every call is made
\* by a thread running ProcessScriptFromVsync or ProcessScriptFromMainLoop,
\* never by the record's worker.
C4_AtMostOnceTeardown ==
    \A r \in RecIds :
        /\ Len(onCloseCalls[r]) <= 1
        /\ \A i \in 1..Len(onCloseCalls[r]) : onCloseCalls[r][i] \in Drivers

\* C4 witness: on_close has been called by a driver that is inside
\* HandlePluginClosings.
C4_Witness ==
    \E r \in RecIds, d \in Drivers : onCloseCalls[r] = <<d>> /\ dpc[d] = "join"

\* C5: once a removed plugin's record is queued for removal (its in-flight pass
\* has returned), on_close is called, the worker is joined, the library closed,
\* the record erased, the list-changed callback called and the driver entry
\* point returns.
C5_UnloadCompletes ==
    \A r \in RecIds :
        hasStopped[r] ~> (/\ wpc[r] = "done"
                          /\ ~libOpen[r]
                          /\ ~InList(r)
                          /\ callbackCalls > 0
                          /\ plugins_mutex \notin Drivers)

\* C6: a worker that is inside frame-advance past its notification has parked at
\* a vsync boundary: encounteredVsync is true for the scheduler to observe, and
\* once the worker blocks the record's mutex is released.
C6_FrameAdvanceParks ==
    \A r \in RecIds :
        wpc[r] \in {"fa_lock", "fa_pred", "fa_waiting", "fa_relock"}
        => /\ encounteredVsync[r]
           /\ wpc[r] = "fa_waiting" => pluginMutex[r] # "worker"

\* C7: a ProcessScriptFromVsync entry made while the manager is active and a
\* plugin has an outstanding frame-advance call leads to the return of that
\* call (or to the end of the pass).
C7_FrameAdvancePairing ==
    \A r \in RecIds :
        (dpc["vsync"] = "lock" /\ InFrameAdvance(r))
        ~> (~InFrameAdvance(r) /\ dpc["vsync"] = "idle")

AbiMismatch(l) == ~LibHasVersion(l) \/ LibVersion(l) # PLUGIN_INTERFACE_VERSION

\* C9: a LoadPlugin call pushes a record only for a library whose version symbol
\* is present and returns PLUGIN_INTERFACE_VERSION; for a library that opens
\* and whose symbol is missing or whose version differs the call returns false
\* with an error recorded (for a differing version, the one with both numbers),
\* no record, no key, no call of start and no worker.
C9_AbiEquality ==
    [][\A p \in Paths, l \in LibKinds :
          LoadPlugin(p, l) /\ ~LoadDedup(p, l) /\ LibOpens(l)
          => /\ numRecs' # numRecs => ~AbiMismatch(l)
             /\ AbiMismatch(l)
                => /\ ~aborted'
                   /\ ~LoadReturns(p, l)
                   /\ last_error' # NoError
                   /\ LibHasVersion(l) => last_error' = VersionErrorText(l)
                   /\ plugins' = plugins
                   /\ loaded_plugins' = loaded_plugins
                   /\ startCalls' = startCalls
                   /\ pluginThread' = pluginThread]_vars

\* C10: a LoadPlugin call that returns false because the library does not open
\* or does not export start or on_main_loop leaves the plugins list and the
\* key-set as they were, calls no start, creates no worker and records an error.
C10_FailedLoadUnchanged ==
    [][\A p \in Paths, l \in LibKinds :
          LoadPlugin(p, l) /\ (LoadOpenFails(p, l) \/ LoadMissingEntry(p, l))
          => /\ ~LoadReturns(p, l)
             /\ plugins' = plugins
             /\ loaded_plugins' = loaded_plugins
             /\ numRecs' = numRecs
             /\ startCalls' = startCalls
             /\ pluginThread' = pluginThread
             /\ wpc' = wpc
             /\ (\A r \in RecIds : InList(r) => path[r] # p)
                => (\A r \in RecIds : path'[r] = p => ~pluginThread'[r])
             /\ last_error' # NoError]_vars

\* C10 witness: a load has failed for a missing entry point or a library that
\* does not open, and the manager has no record.
C10_Witness ==
    /\ last_error \in {EntryPointErrorText, DllErrorText}
    /\ plugins = <<>> /\ loaded_plugins = {}

\* C11: a LoadPlugin call for a path outside the key-set and a conforming
\* library returns true, inserts the path into the key-set, appends exactly one
\* record with that path to the plugins list and calls start once for it; no
\* step ever calls start again for a record.
C11_SuccessfulLoad ==
    [][/\ \A p \in Paths, l \in LibKinds :
             LoadPlugin(p, l) /\ LoadSucceeds(p, l)
             => /\ ~aborted' /\ LoadReturns(p, l)
                /\ loaded_plugins' = loaded_plugins \cup {p}
                /\ plugins' = Append(plugins, numRecs')
                /\ numRecs' = numRecs + 1
                /\ path'[numRecs'] = p
                /\ startCalls' = [startCalls EXCEPT ![numRecs'] = 1]
       /\ \A r \in RecIds : startCalls'[r] # startCalls[r] => startCalls[r] = 0]_vars

\* C11 witness: a record was pushed by a load, start was called once for it, and
\* its worker has since run a main-loop pass.
C11_Witness ==
    \E r \in RecIds :
        /\ InList(r) /\ path[r] \in loaded_plugins
        /\ startCalls[r] = 1
        /\ wpc[r] = "waiting"

\* Everything a LoadPlugin call can change, apart from the count of UI calls.
LoadFrame ==
    <<aborted, plugins, loaded_plugins, last_error, looseHandles, numRecs, recordVars,
      startCalls>>

\* C12: a LoadPlugin call for a path already in the key-set returns true and
\* changes nothing: no library is opened, start is not called, the plugins list
\* and the key-set stay as they are (so a second call in a row adds nothing to
\* the first).
C12_LoadIdempotent ==
    [][\A p \in Paths, l \in LibKinds :
          LoadPlugin(p, l) /\ p \in loaded_plugins
          => /\ LoadReturns(p, l)
             /\ UNCHANGED LoadFrame]_vars

\* C12 witness: a path is in the key-set and the UI can call LoadPlugin for it
\* again.
C12_Witness ==
    \E p \in Paths :
        /\ p \in loaded_plugins
        /\ uiCalls < MaxUiCalls
        /\ ENABLED LoadPlugin(p, "full")

\* C13: a RemovePlugin call made while no other thread holds plugins_mutex
\* returns (the process lives, the UI thread is not blocked, plugins_mutex is
\* free again), afterwards the path is not in the key-set, and nothing else has
\* changed: the plugins list, the records, the workers and the other keys.
C13_RemoveFrame ==
    [][\A p \in Paths :
          RemovePlugin(p)
          => /\ ~aborted' /\ ~uiBlocked' /\ plugins_mutex' = NoOwner
             /\ loaded_plugins' = loaded_plugins \ {p}
             /\ UNCHANGED <<plugins, temp_plugins_to_remove, numRecs, recordVars, wpc,
                            dpc>>]_vars

\* C14: a SetActive(true) call made while the manager is inactive leaves the
\* manager active with its pacing thread created.
C14_ActivationStartsPacing ==
    [][SetActive(TRUE) /\ ~active => active' /\ pacingThread']_vars

\* The record is on the pending-removal list.
Queued(r) == \E i \in 1..Len(temp_plugins_to_remove) : temp_plugins_to_remove[i] = r

\* C15: a record is erased from the plugins list only after its worker has
\* observed hasStopped and left PluginThreadExecuter, and a record is queued for
\* removal or erased only while its path is absent from the key-set.
C15_KeySetAuthority ==
    [][\A r \in RecIds :
          /\ InList(r) /\ ~InList(r)'
             => hasStopped[r] /\ wpc[r] = "done" /\ path[r] \notin loaded_plugins
          /\ ~Queued(r) /\ Queued(r)'
             => processedMainLoop[r] /\ path[r] \notin loaded_plugins
                /\ path[r] \notin loaded_plugins']_vars

\* C15 witness: a record whose path was removed from the key-set is queued for
\* removal and still in the plugins list, its worker not terminated.
C15_Witness ==
    \E r \in RecIds :
        /\ Queued(r) /\ hasStopped[r] /\ InList(r)
        /\ path[r] \notin loaded_plugins
        /\ wpc[r] # "done"

\* An invocation of the record's main-loop function is in progress (running, or
\* suspended inside frame-advance).
InMainLoop(r) == InPluginCode(r) \/ InFrameAdvance(r)

\* C16: for every plugin path at most one invocation of its main-loop function
\* is in progress, also when the path was removed and loaded again and two
\* records of the path exist.
C16_OneMainLoopInvocation ==
    \A p \in Paths : Cardinality({r \in RecIds : path[r] = p /\ InMainLoop(r)}) <= 1

\* C16 witness: a path was removed and loaded again, both of its records have a
\* worker, and one of them is in the main-loop function.
C16_Witness ==
    \E r1, r2 \in RecIds :
        /\ r1 # r2 /\ path[r1] = path[r2]
        /\ pluginThread[r1] /\ pluginThread[r2]
        /\ InMainLoop(r2)

C18_HandlesBalanced ==
    [][\A p \in Paths, l \in LibKinds :
          LoadPlugin(p, l) /\ ~LoadDedup(p, l) /\ LibOpens(l)
          /\ numRecs' = numRecs /\ ~aborted'
          => looseHandles' = looseHandles]_vars

\* A driver is between the lock_guard of its entry point and the entry point's
\* return: the part that reads the plugins list, looks the record's path up in
\* the key-set and erases records.
InEntryPoint(d) == dpc[d] \notin {"nothread", "idle", "lock"}

\* C19: every thread that reads or writes the plugins list or the key-set holds
\* plugins_mutex at that moment: a driver inside its entry point (the loop over
\* plugins, the key-set lookup of ProcessScript, the erase of
\* HandlePluginClosings), and the UI thread while it iterates over the set
\* returned by GetAllLoadedPlugins.
C19_ManagerLockDiscipline ==
    /\ \A d \in Drivers : InEntryPoint(d) => plugins_mutex = d
    /\ uiIterating => plugins_mutex = "ui"

\* The record's main loop makes an overlay call.
OverlayCalls(r) ==
    \/ gui_clearscreen(r)
    \/ \E x \in Pixels, c \in PenColors : gui_drawpixel(r, x, c)
    \/ \E x \in Pixels, f \in ImageFiles : gui_drawimage(r, x, f)
    \/ gui_render(r)

\* C20: an overlay call (gui_clearscreen, gui_drawpixel, gui_drawimage,
\* gui_render) made while the guest is not powered on changes neither the canvas
\* nor the painter nor the recorded dock state, does not call the render
\* callback and does not enter RenderGui.
C20_OverlayRefusal ==
    [][\A r \in RecIds :
          OverlayCalls(r) /\ ~poweredOn
          => /\ UNCHANGED <<guiPixmap, guiPainter, lastDockedState, renderCalls>>
             /\ wpc'[r] = "main"]_vars

\* C20 witness: a canvas was painted while the guest was on, the guest was
\* switched off, a callback is installed, and the main loop's gui_render was
\* refused.
C20_Witness ==
    /\ lastRefused = "gui_render"
    /\ ~poweredOn
    /\ render_callback
    /\ \E x \in Pixels : guiPixmap.px[x] # "transparent"
    /\ \E r \in RecIds : wpc[r] = "main"

\* The record's main loop makes a host-API call that depends on the guest.
GuestCalls(r) ==
    \/ \E fn \in HostApiGetters : HostApiGet(r, fn)
    \/ \E a \in Addresses, b \in Addresses : a <= b /\ memory_readbyterange(r, a, b)
    \/ \E a \in Addresses, b \in Addresses, v \in Bytes :
          a <= b /\ memory_writebyterange(r, a, b, v)

\* C21: a host-API call that depends on the guest process or on the HID facade,
\* made while no guest process is running, returns the zero/false sentinel and
\* changes no guest state.
C21_GuestNotReady ==
    [][\A r \in RecIds :
          GuestCalls(r) /\ processStatus # "running"
          => lastCall'.ret = 0 /\ guestMemory' = guestMemory]_vars

\* C22: memory_readbyterange and memory_writebyterange called with a range that
\* is not wholly valid guest memory return false, and such a write changes no
\* byte of guest memory; they return true only for a range that is wholly valid.
C22_MemoryRangeCheck ==
    [][\A r \in RecIds, a \in Addresses, b \in Addresses :
          /\ a <= b
          /\ \/ memory_readbyterange(r, a, b)
             \/ \E v \in Bytes : memory_writebyterange(r, a, b, v)
          /\ ~RangeValid(a, b)
          => lastCall'.ret = 0 /\ guestMemory' = guestMemory]_vars

\* The driver is blocked in the wait of ProcessScript on the record its loop is
\* at, and that record's worker has finished its pass and is parked on ready.
LostWakeup(d) ==
    /\ dpc[d] = "ps_waiting"
    /\ wpc[Cur(d)] = "waiting"
    /\ ~ready[Cur(d)]

\* C23: within a pass the worker's stores to processedMainLoop / encounteredVsync
\* and its notify never fall between the scheduler's evaluation of the wait
\* predicate and its blocking on the condition variable: the scheduler is never
\* left blocked in ProcessScript while the worker is parked again, so a
\* ProcessScript call whose main loop returns does return.
C23_NoLostWakeup == \A d \in Drivers : ~LostWakeup(d)

\* C24: whenever the scheduler sets hasStopped on a record it also sets ready for
\* it, so that the worker parked on ready wakes, sees the stop and returns, and
\* the join of HandlePluginClosings terminates.
C24_StopWakesWorker ==
    [][\A r \in RecIds : ~hasStopped[r] /\ hasStopped'[r] => ready'[r]]_vars

\* The vsync entry point is inside the body of its loop for the record: it has
\* found encounteredVsync set and is clearing it or running ProcessScript passes.
VsyncDrives(r) ==
    /\ dpc["vsync"] \in {"clear", "ps_thread", "ps_ready", "ps_notify", "ps_lock",
                        "ps_pred", "ps_block", "ps_waiting", "ps_ret"}
    /\ Cur("vsync") = r

\* C25: a ProcessScriptFromVsync entry made while a plugin's worker is parked
\* inside frame-advance drives that plugin: it finds encounteredVsync set and
\* runs ProcessScript passes for it until the next vsync boundary or the stop.
C25_VsyncRunsToBoundary ==
    \A r \in RecIds :
        (dpc["vsync"] = "lock" /\ InFrameAdvance(r)) ~> VsyncDrives(r)

\* C26: within one ProcessScriptFromMainLoop call the pacing driver starts a
\* ProcessScript pass for a record exactly when it finds processedMainLoop set,
\* moves on to the next record when that pass returns (one pass per record per
\* tick), goes on to HandlePluginClosings after the last record, and returns
\* only with the pending-removal list empty.
C26_PacingTickOnePass ==
    [][/\ dpc["pacing"] = "loop" /\ di["pacing"] <= Len(plugins)
          => (dpc'["pacing"] = "clear" <=> processedMainLoop[Cur("pacing")])
       /\ dpc["pacing"] = "loop" /\ dpc'["pacing"] = "loop"
          => di'["pacing"] = di["pacing"] + 1
       /\ dpc["pacing"] = "ps_ret"
          => /\ dpc'["pacing"] = "loop"
             /\ di'["pacing"] = di["pacing"] + 1
       /\ dpc["pacing"] = "loop" /\ di["pacing"] > Len(plugins)
          => dpc'["pacing"] = "closings"
       /\ dpc["pacing"] \in {"closings", "join"} /\ dpc'["pacing"] = "idle"
          => temp_plugins_to_remove' = <<>>]_<<dpc["pacing"], di["pacing"]>>

\* C26 witness: one pacing tick has run a main-loop pass, has walked past the
\* last record and has reached HandlePluginClosings with a record to remove.
C26_Witness ==
    /\ dpc["pacing"] = "closings"
    /\ di["pacing"] > Len(plugins)
    /\ \E r \in RecIds : enteredSinceTick[r]
    /\ temp_plugins_to_remove # <<>>

\* No driver is inside an entry point: the emulator is not in
\* ProcessScriptFromVsync and the pacing thread, if any, is not in
\* ProcessScriptFromMainLoop.
NoEntryRunning == \A d \in Drivers : dpc[d] \in {"idle", "nothread"}

\* C27: while the active flag is false, a call of ProcessScriptFromVsync or
\* ProcessScriptFromMainLoop does nothing: the drivers stay outside the entry
\* points, ready is set for no record, no worker is created, no main-loop pass is
\* started, the pending-removal list is not touched and on_close is not called.
C27_InactiveDrivesNothing ==
    [][~active /\ NoEntryRunning
          => /\ dpc' = dpc
             /\ \A r \in RecIds : ready'[r] => ready[r]
             /\ pluginThread' = pluginThread
             /\ \A r \in RecIds : InMainLoop(r)' => InMainLoop(r)
             /\ temp_plugins_to_remove' = temp_plugins_to_remove
             /\ onCloseCalls' = onCloseCalls]_vars

\* C27 witness: the manager was active and a pass ran (a worker exists and is
\* parked at a main-loop boundary of a listed record), it has been deactivated,
\* the pacing thread exists and both entry points are between calls.
C27_Witness ==
    /\ ~active
    /\ pacingThread
    /\ NoEntryRunning
    /\ \E i \in 1..Len(plugins) :
          /\ pluginThread[plugins[i]]
          /\ processedMainLoop[plugins[i]]
          /\ wpc[plugins[i]] = "waiting"

\* C28: a main loop that calls frame-advance and then returns is carried through
\* by the vsync entries of an active manager: each call parks the worker until
\* the next entry resumes it, and after the last call the pass ends with
\* processedMainLoop set for the scheduler to observe.
C28_FrameAdvanceLoopCompletes ==
    \A r \in RecIds :
        (InFrameAdvance(r) /\ active) ~> (processedMainLoop[r] \/ ~active)

\* C29: over any sequence of SetActive calls the manager creates at most one
\* pacing thread, and a call creates it only when the active flag was already
\* set, never while the manager has not been activated.
C29_OnePacingThread ==
    [][/\ pacingThreadsCreated' <= 1
       /\ pacingThreadsCreated' # pacingThreadsCreated => active
       /\ pacingThread' <=> pacingThreadsCreated' = 1]_vars

\* C29 witness: three UI calls, no load: SetActive(true) twice created the
\* thread and SetActive(false) followed.
C29_Witness ==
    /\ pacingThreadsCreated = 1
    /\ ~active
    /\ uiCalls = 3
    /\ numRecs = 0

\* A driver is at the thread-creation test of a ProcessScript call on the record.
AtEnsureThread(r) ==
    \E d \in Drivers : dpc[d] = "ps_thread" /\ di[d] <= Len(plugins) /\ Cur(d) = r

\* C30: a record's worker thread is created lazily and once: only a ProcessScript
\* call creates it (LoadPlugin does not), the first such call on the record does,
\* no record ever gets a second worker, a worker runs exactly for the records
\* that had one created, and a record that has a worker is erased from the list
\* only after that worker has returned for the join of the teardown.
C30_OneLazyWorker ==
    [][\A r \in RecIds :
          /\ workersCreated'[r] <= 1
          /\ workersCreated'[r] # workersCreated[r] => AtEnsureThread(r)
          /\ AtEnsureThread(r) /\ ~AtEnsureThread(r)' => pluginThread'[r]
          /\ pluginThread'[r] <=> workersCreated'[r] = 1
          /\ pluginThread'[r] <=> wpc'[r] # "nothread"
          /\ InList(r) /\ ~InList(r)' /\ pluginThread[r] => wpc[r] = "done"]_vars

\* C30 witness: a record was loaded without a worker, its one worker was created
\* by a later ProcessScript call, and the teardown of the record is at the join
\* with that worker still there and the record still listed.
C30_Witness ==
    \E r \in RecIds, d \in Drivers :
        /\ workersCreated[r] = 1
        /\ dpc[d] = "join"
        /\ temp_plugins_to_remove[closeIdx] = r
        /\ wpc[r] \notin {"nothread", "done"}
        /\ InList(r)

\* C31: ~PluginManager does nothing when no pacing thread was created; otherwise
\* it clears the run flag and returns only after the pacing thread has left its
\* thread function.  The pacing thread leaves only with the flag cleared and
\* makes no call afterwards.  If the pacing thread's calls of
\* ProcessScriptFromMainLoop keep returning, the destructor terminates.
C31_DestructorStopsPacing ==
    /\ [][/\ dtor = "none" /\ dtor' # "none"
             => /\ dpc' = dpc
                /\ IF pacingThread
                      THEN ~run_main_loop_thread' /\ dtor' = "join"
                      ELSE run_main_loop_thread' /\ dtor' = "done"
          /\ dtor' = "done" /\ pacingThread => dpc'["pacing"] = "exited"
          /\ dpc["pacing"] = "exited" => dpc'["pacing"] = "exited"
          /\ dpc'["pacing"] = "exited" => ~run_main_loop_thread']_vars
    /\ ([]<>(dpc["pacing"] \in {"idle", "exited"})
          => (dtor = "join" ~> (dtor = "done" \/ aborted)))

\* C31 witness: the manager was activated and ran a pass of a plugin (its worker
\* exists), and the destructor has joined the pacing thread and returned.
C31_Witness ==
    /\ dtor = "done"
    /\ pacingThread
    /\ dpc["pacing"] = "exited"
    /\ \E r \in RecIds : pluginThread[r]

C33_UniqueRecordPerPath ==
    \A i, j \in 1..Len(plugins) : i # j => path[plugins[i]] # path[plugins[j]]

\* C34: across all records at most one worker is executing plugin code (and so
\* calling into the host API and the HID facade) at any instant, whatever the
\* interleaving of the vsync thread and the pacing thread.
C34_GlobalBaton ==
    Cardinality({r \in RecIds : InPluginCode(r)}) <= 1

\* C34 witness: two records have workers; one is in plugin code, the other is
\* parked waiting for ready.
C34_Witness ==
    \E r1, r2 \in RecIds :
        /\ r1 # r2
        /\ InPluginCode(r1)
        /\ pluginThread[r2]
        /\ wpc[r2] = "waiting"
        /\ InList(r1) /\ InList(r2)

\* C35: with a guest process running, emu_getmainstart and emu_getmainsize
\* return the start and the size of the process's main region, as
\* emu_getheapstart and emu_getstackstart return those of the heap and the stack:
\* the value the emulator facade hands back, which is not 0.
C35_RegionGetters ==
    [][\A r \in RecIds, fn \in MainGetters :
          HostApiGet(r, fn) /\ processStatus = "running"
          => /\ lastCall'.ret = FacadeValue(fn)
             /\ lastCall'.ret # 0]_vars

\* C36: with the HID facade bound, for every modifier m of KeyboardModifiers,
\* input_setkeymodifierpressed(m, 1) sets the bit of m and
\* input_setkeymodifierpressed(m, 0) clears it, changing no other modifier bit,
\* and input_iskeymodifierpressed(m) returns a non-zero 8-bit value exactly when
\* the bit of m is set: a write of 1 reads back non-zero, a write of 0 reads 0.
C36_ModifierRoundTrip ==
    [][\A r \in RecIds, m \in KeyboardModifiers :
          /\ \A ispressed \in {0, 1} :
                input_setkeymodifierpressed(r, m, ispressed) /\ hidAppletResource[r]
                => /\ BitIsSet(modifier', m) <=> ispressed = 1
                   /\ \A n \in KeyboardModifiers \ {m} :
                         BitIsSet(modifier', n) <=> BitIsSet(modifier, n)
          /\ input_iskeymodifierpressed(r, m) /\ hidAppletResource[r]
             => /\ lastCall'.ret \in 0..255
                /\ lastCall'.ret # 0 <=> BitIsSet(modifier, m)]_vars

\* A driver begins a ProcessScript call for record r with this step.
CallsProcessScript(d, r) ==
    /\ dpc'[d] = "ps_thread"
    /\ di'[d] <= Len(plugins')
    /\ plugins'[di'[d]] = r
    /\ dpc[d] \in {"clear", "ps_ret"}

\* C37: once on_close has been invoked for a record, its main-loop function is
\* never entered again and no frame-advance call of it returns; once hasStopped
\* is set on a record it is never cleared and no driver calls ProcessScript on
\* that record again.
C37_NoMainLoopAfterClose ==
    [][\A r \in RecIds :
          /\ onCloseCalls[r] # <<>> /\ wpc[r] # "main" => wpc'[r] # "main"
          /\ hasStopped[r]
             => /\ hasStopped'[r]
                /\ \A d \in Drivers : ~CallsProcessScript(d, r)]_vars

\* C37 witness: on_close has been called for a stopped record whose worker has
\* gone back to its wait on ready, and the entry point is at the join.
C37_Witness ==
    \E r \in RecIds, d \in Drivers :
        /\ onCloseCalls[r] # <<>>
        /\ hasStopped[r]
        /\ wpc[r] = "waiting"
        /\ dpc[d] = "join"

\* A driver is inside a ProcessScript call for record r that has not returned.
CallInFlight(d, r) ==
    /\ dpc[d] \in {"ps_thread", "ps_ready", "ps_notify", "ps_lock", "ps_pred", "ps_block",
                   "ps_waiting"}
    /\ Cur(d) = r

\* The worker of r returns from a wait on ready with this step.
Resumes(r) == wpc[r] \in {"pred", "fa_pred"} /\ ready[r] /\ wpc'[r] \in {"main", "done"}

\* C38: every ProcessScript call resumes the worker exactly once: ready is set
\* only when it is false, it is cleared only by the worker's return from a wait
\* on ready, and it is false again when the call returns; whenever no
\* ProcessScript call is in flight for a record and its worker is blocked in its
\* wait, ready is false; the worker starts a main-loop pass only while the call
\* that set ready is in flight.
C38_ReadyTokenPairing ==
    /\ [](\A r \in RecIds :
            (BlockedOnReady(r) /\ \A d \in Drivers : ~CallInFlight(d, r)) => ~ready[r])
    /\ [][\A r \in RecIds :
             /\ ~ready[r] /\ ready'[r]
                => \E d \in Drivers : dpc[d] = "ps_ready" /\ dpc'[d] = "ps_notify" /\ Cur(d) = r
             /\ ready[r] => (~ready'[r] <=> Resumes(r))
             /\ \A d \in Drivers :
                   /\ dpc[d] = "ps_ready" /\ dpc'[d] = "ps_notify" /\ Cur(d) = r => ~ready[r]
                   /\ dpc'[d] = "ps_ret" /\ dpc[d] # "ps_ret" /\ Cur(d) = r => ~ready'[r]
             /\ wpc[r] = "pred" /\ wpc'[r] = "main"
                => \E d \in Drivers : PassInFlight(d, r)]_vars

\* C38 witness: a ProcessScript call has returned after the worker ran one pass
\* on its token and went back to its wait.
C38_Witness ==
    \E r \in RecIds, d \in Drivers :
        /\ dpc[d] = "ps_ret"
        /\ Cur(d) = r
        /\ enteredSinceTick[r]
        /\ wpc[r] = "waiting"
        /\ ~ready[r]

\* C39: whenever plugins_mutex is not held, every path of the key-set has a record
\* in the plugins list, and every listed record whose path is not in the key-set
\* is awaiting teardown (no on_close yet, worker not gone, library open); a path
\* leaves the key-set only by a RemovePlugin call for it.
C39_KeySetBackedByRecords ==
    /\ [](plugins_mutex = NoOwner
          => /\ \A p \in loaded_plugins : \E i \in 1..Len(plugins) : path[plugins[i]] = p
             /\ \A i \in 1..Len(plugins) :
                   path[plugins[i]] \notin loaded_plugins
                   => /\ onCloseCalls[plugins[i]] = <<>>
                      /\ wpc[plugins[i]] # "done"
                      /\ libOpen[plugins[i]])
    /\ [][\A p \in Paths : p \in loaded_plugins /\ p \notin loaded_plugins'
                           => RemovePlugin(p)]_vars

\* C39 witness: with plugins_mutex free, one listed record has its path in the
\* key-set and another has been removed from it and is still listed.
C39_Witness ==
    /\ plugins_mutex = NoOwner
    /\ \E i, j \in 1..Len(plugins) :
          /\ path[plugins[i]] \in loaded_plugins
          /\ path[plugins[j]] \notin loaded_plugins

\* C40: the pending-removal list is empty whenever no driver entry point holds
\* plugins_mutex, no record appears in it more than once, and every record in it
\* has hasStopped set and is still in the plugins list.
C40_PendingRemovalHygiene ==
    /\ plugins_mutex \notin Drivers => temp_plugins_to_remove = <<>>
    /\ \A i, j \in 1..Len(temp_plugins_to_remove) :
          i # j => temp_plugins_to_remove[i] # temp_plugins_to_remove[j]
    /\ \A i \in 1..Len(temp_plugins_to_remove) :
          /\ hasStopped[temp_plugins_to_remove[i]]
          /\ InList(temp_plugins_to_remove[i])

\* C40 witness: a stopped, listed record is on the pending-removal list of the
\* entry point that holds plugins_mutex and has finished its loop over plugins.
C40_Witness ==
    \E d \in Drivers :
        /\ plugins_mutex = d
        /\ Len(temp_plugins_to_remove) = 1
        /\ hasStopped[temp_plugins_to_remove[1]]
        /\ InList(temp_plugins_to_remove[1])
        /\ dpc[d] = "closings"

====
